---- MODULE Spec2Model ----
(***************************************************************************)
(* Model of the FAQ bot: the loader/facade of src/faq-loader.mjs and the   *)
(* content parser of src/index.mjs.                                        *)
(*                                                                         *)
(* JavaScript values are records [t, v]: t is the type tag and v a         *)
(* sequence (the characters of a string, the elements of an array, the     *)
(* <<key, value>> entries of an object in Object.entries order, <<n>> for  *)
(* a number).  Strings are sequences of one-character strings so that      *)
(* trim, toLowerCase, slice and the regular expressions work on            *)
(* characters.                                                             *)
(***************************************************************************)
EXTENDS Integers, Sequences, FiniteSets, TLC

VARIABLES raw, out,                \* normalizeFaqData: argument and outcome
          faqFile, faqData, op,    \* faq.json, the module cache, the last call
          text, IMAGES, parts,     \* parseContentMarkers: argument, table, outcome
          testFile, store,         \* testfaq.json, message.json
          discord,                 \* the bot's root message in each guild's channel
          tasks,                   \* the handlers in flight, each at an await
          userLangCache            \* userLangCache

vars == <<raw, out, faqFile, faqData, op, text, IMAGES, parts,
          testFile, store, discord, tasks, userLangCache>>

\* The state of index.mjs other than the parser
botVars == <<testFile, store, discord, tasks, userLangCache>>

---------------------------------------------------------------------------
(* JavaScript values                                                       *)

Undef == [t |-> "undefined", v |-> <<>>]
Null == [t |-> "null", v |-> <<>>]
Fn == [t |-> "function", v |-> <<>>]
Num(n) == [t |-> "number", v |-> <<n>>]
Str(s) == [t |-> "string", v |-> s]
Arr(es) == [t |-> "array", v |-> es]
Obj(es) == [t |-> "object", v |-> es]
Bool(b) == [t |-> "boolean", v |-> <<b>>]

\* The outcome of a call that raised (a TypeError) instead of returning.
Thrown == [t |-> "thrown", v |-> <<>>]

\* Outcome placeholder before the operation has run.
NotRun == [t |-> "notrun", v |-> <<>>]

\* typeof x
TypeOf(x) ==
  CASE x.t \in {"null", "array", "object"} -> "object"
    [] OTHER -> x.t

\* ToBoolean(x): the test of `!x`, `x || y`, `x && y`, `if (x)`
Truthy(x) ==
  CASE x.t \in {"undefined", "null"} -> FALSE
    [] x.t = "number" -> x.v[1] # 0
    [] x.t = "string" -> x.v # <<>>
    [] x.t = "boolean" -> x.v[1]
    [] OTHER -> TRUE

\* a || b
Or(a, b) == IF Truthy(a) THEN a ELSE b

\* x is null or undefined: reading a property of x raises a TypeError
Nullish(x) == x.t \in {"undefined", "null"}

\* String literals of the source, as character sequences
s_en == <<"e", "n">>
s_pt == <<"p", "t">>
s_id == <<"i", "d">>
s_key == <<"k", "e", "y">>
s_label == <<"l", "a", "b", "e", "l">>
s_labels == <<"l", "a", "b", "e", "l", "s">>
s_content == <<"c", "o", "n", "t", "e", "n", "t">>
s_category == <<"c", "a", "t", "e", "g", "o", "r", "y">>
s_categoryId == <<"c", "a", "t", "e", "g", "o", "r", "y", "I", "d">>
s_categories == <<"c", "a", "t", "e", "g", "o", "r", "i", "e", "s">>
s_faqs == <<"f", "a", "q", "s">>
s_rootMessage == <<"r", "o", "o", "t", "M", "e", "s", "s", "a", "g", "e">>
s_header == <<"h", "e", "a", "d", "e", "r">>
s_general == <<"g", "e", "n", "e", "r", "a", "l">>
s_General == <<"G", "e", "n", "e", "r", "a", "l">>
s_constructor == <<"c", "o", "n", "s", "t", "r", "u", "c", "t", "o", "r">>
s_objectObject ==
  <<"[", "o", "b", "j", "e", "c", "t", " ", "O", "b", "j", "e", "c", "t", "]">>

\* Names every object literal and JSON.parse result inherits from
\* Object.prototype (constructor, toString, ...); one stands for them all.
ObjectPrototypeKeys == {s_constructor}

Digits == <<"0", "1", "2", "3", "4", "5", "6", "7", "8", "9">>
UpperCase == <<"A", "B", "C", "D", "E", "F", "G", "H", "I", "J", "K", "L", "M",
               "N", "O", "P", "Q", "R", "S", "T", "U", "V", "W", "X", "Y", "Z">>
LowerCase == <<"a", "b", "c", "d", "e", "f", "g", "h", "i", "j", "k", "l", "m",
               "n", "o", "p", "q", "r", "s", "t", "u", "v", "w", "x", "y", "z">>
WhiteSpace == {" ", "\n"}

\* String.prototype.toLowerCase
LowerChar(c) ==
  IF \E i \in 1..Len(UpperCase) : UpperCase[i] = c
  THEN LowerCase[CHOOSE i \in 1..Len(UpperCase) : UpperCase[i] = c]
  ELSE c
toLowerCase(s) == [i \in 1..Len(s) |-> LowerChar(s[i])]

\* String.prototype.trim
RECURSIVE trimStart(_)
trimStart(s) ==
  IF s # <<>> /\ Head(s) \in WhiteSpace THEN trimStart(Tail(s)) ELSE s
RECURSIVE trimEnd(_)
trimEnd(s) ==
  IF s # <<>> /\ s[Len(s)] \in WhiteSpace
  THEN trimEnd(SubSeq(s, 1, Len(s) - 1))
  ELSE s
trim(s) == trimEnd(trimStart(s))

\* The property name of array index i (0-based), for Object.entries of an array
IndexKey(i) == <<Digits[i + 1]>>

\* Object.entries(x) of an object or an array
Entries(x) ==
  CASE x.t = "object" -> x.v
    [] x.t = "array" -> [i \in 1..Len(x.v) |-> <<IndexKey(i - 1), x.v[i]>>]
    [] OTHER -> <<>>

\* Object.keys(x), Object.values(x)
Keys(x) == [i \in 1..Len(Entries(x)) |-> Entries(x)[i][1]]
Values(x) == [i \in 1..Len(Entries(x)) |-> Entries(x)[i][2]]

\* Object.prototype.hasOwnProperty
HasOwn(x, k) == \E i \in 1..Len(Entries(x)) : Entries(x)[i][1] = k

\* x[k] / x.k of a non-nullish x: the own property, else the property
\* inherited from the prototype, else undefined
Get(x, k) ==
  IF HasOwn(x, k)
  THEN Entries(x)[CHOOSE i \in 1..Len(Entries(x)) : Entries(x)[i][1] = k][2]
  ELSE IF k \in ObjectPrototypeKeys THEN Fn ELSE Undef

\* k in x
In(k, x) == HasOwn(x, k) \/ k \in ObjectPrototypeKeys

\* x[k] = val on an object: replaces the own property in place, or appends it
Put(x, k, val) ==
  IF HasOwn(x, k)
  THEN Obj([i \in 1..Len(x.v) |-> IF x.v[i][1] = k THEN <<k, val>> ELSE x.v[i]])
  ELSE Obj(Append(x.v, <<k, val>>))

\* x.toString() of a non-nullish x
RECURSIVE toString(_)
RECURSIVE join(_)
toString(x) ==
  CASE x.t = "string" -> x.v
    [] x.t = "number" -> <<Digits[x.v[1] + 1]>>
    [] x.t = "array" -> join(x.v)
    [] OTHER -> s_objectObject
\* Array.prototype.join(',') as Array.prototype.toString uses it
join(es) ==
  IF es = <<>> THEN <<>>
  ELSE LET h == IF Nullish(Head(es)) THEN <<>> ELSE toString(Head(es))
       IN IF Len(es) = 1 THEN h ELSE h \o <<",">> \o join(Tail(es))

\* x?.k
OptGet(x, k) == IF Nullish(x) THEN Undef ELSE Get(x, k)

---------------------------------------------------------------------------
(* src/faq-loader.mjs: normalisation                                       *)

\* The object literal {k: ''}
EmptyLanguageMap(k) == Obj(<< <<k, Str(<<>>)>> >>)

\* The `for` loop of copyLanguageKeys: copies the string-valued entries
RECURSIVE copyStrings(_, _)
copyStrings(es, result) ==
  IF es = <<>> THEN result
  ELSE copyStrings(Tail(es),
                   IF Head(es)[2].t = "string"
                   THEN Put(result, Head(es)[1], Head(es)[2])
                   ELSE result)

\* copyLanguageKeys without the insertion of the fallback key (lines 21-23)
copyLanguageKeysNoFallback(source, fallbackLang) ==
  IF ~Truthy(source) \/ TypeOf(source) # "object"
  THEN EmptyLanguageMap(fallbackLang)
  ELSE copyStrings(Entries(source), Obj(<<>>))

copyLanguageKeys(source, fallbackLang) ==
  IF ~Truthy(source) \/ TypeOf(source) # "object"
  THEN EmptyLanguageMap(fallbackLang)
  ELSE LET result == copyStrings(Entries(source), Obj(<<>>))
       IN IF ~Truthy(Get(result, fallbackLang))
          THEN Put(result, fallbackLang, Str(<<>>))
          ELSE result

\* The object literal {id, label} pushed to result.categories
Category(id, label) == Obj(<< <<s_id, Str(id)>>, <<s_label, label>> >>)

\* The object literal {categoryId, label, content} stored in result.faqs
FaqEntry(categoryId, label, content) ==
  Obj(<< <<s_categoryId, Str(categoryId)>>, <<s_label, label>>,
         <<s_content, content>> >>)

\* The object literal {rootMessage, categories, faqs}
Dataset(rootMessage, categories, faqs) ==
  Obj(<< <<s_rootMessage, rootMessage>>, <<s_categories, Arr(categories)>>,
         <<s_faqs, faqs>> >>)

\* `base` of normalizeFaqData
base == Dataset(EmptyLanguageMap(s_en), <<>>, Obj(<<>>))

\* The loop state of normalizeFaqData: the `seen` set, result.categories,
\* result.faqs, and whether a statement raised
LoopStart == [seen |-> {}, categories |-> <<>>, faqs |-> Obj(<<>>), thrown |-> FALSE]

\* The id of one element of an array-form categories block (line 42)
ArrayCategoryId(cat) ==
  toLowerCase(trim(toString(
    Or(Or(Or(Get(cat, s_id), Get(cat, s_key)), Get(cat, s_label)), Str(<<>>)))))

\* for (const cat of raw.categories), array form
RECURSIVE ArrayCategories(_, _)
ArrayCategories(es, st) ==
  IF es = <<>> \/ st.thrown THEN st
  ELSE LET cat == Head(es)
       IN IF Nullish(cat) THEN [st EXCEPT !.thrown = TRUE]
          ELSE LET id == ArrayCategoryId(cat)
               IN IF id = <<>> \/ id \in st.seen
                  THEN ArrayCategories(Tail(es), st)
                  ELSE ArrayCategories(Tail(es),
                         [st EXCEPT !.seen = @ \cup {id},
                                    !.categories =
                                      Append(@, Category(id, Or(Get(cat, s_label), Str(id))))])

\* Object.values(value)[0]
FirstValue(value) == IF Values(value) = <<>> THEN Undef ELSE Values(value)[1]

\* The label of one entry of a mapping-form categories block (line 51);
\* the value is not null when its type is "object"
MapCategoryLabel(value, id) ==
  Or(IF TypeOf(value) = "object"
     THEN Or(Get(value, s_en), FirstValue(value))
     ELSE value,
     Str(id))

\* for (const [key, value] of Object.entries(raw.categories)), mapping form
RECURSIVE MapCategories(_, _)
MapCategories(es, st) ==
  IF es = <<>> \/ st.thrown THEN st
  ELSE LET key == Head(es)[1]
           value == Head(es)[2]
           id == toLowerCase(trim(key))
       IN IF id = <<>> \/ id \in st.seen
          THEN MapCategories(Tail(es), st)
          ELSE IF value.t = "null" THEN [st EXCEPT !.thrown = TRUE]
          ELSE MapCategories(Tail(es),
                 [st EXCEPT !.seen = @ \cup {id},
                            !.categories =
                              Append(@, Category(id, MapCategoryLabel(value, id)))])

\* The categoryId of one FAQ entry (line 61)
FaqCategoryId(faq) ==
  toLowerCase(toString(
    Or(Or(Get(faq, s_categoryId), Get(faq, s_category)), Str(s_general))))

\* The label of one FAQ entry (line 72)
FaqLabel(faq, safeKey) ==
  Or(Or(Get(faq, s_label), OptGet(Get(faq, s_labels), s_en)), Str(safeKey))

\* for (const [key, faq] of Object.entries(raw.faqs))
RECURSIVE FaqEntries(_, _)
FaqEntries(es, st) ==
  IF es = <<>> \/ st.thrown THEN st
  ELSE LET safeKey == Head(es)[1]
           faq == Head(es)[2]
       IN IF Nullish(faq) THEN [st EXCEPT !.thrown = TRUE]
          ELSE LET categoryId == FaqCategoryId(faq)
                   isNew == categoryId # <<>> /\ categoryId \notin st.seen
                   content == copyLanguageKeys(Or(Get(faq, s_content), Obj(<<>>)), s_en)
               IN FaqEntries(Tail(es),
                    [st EXCEPT
                       !.seen = IF isNew THEN @ \cup {categoryId} ELSE @,
                       !.categories =
                         IF isNew
                         THEN Append(@, Category(categoryId, Str(categoryId)))
                         ELSE @,
                       !.faqs = Put(@, safeKey,
                                    FaqEntry(categoryId, FaqLabel(faq, safeKey), content))])

\* The categories block of raw (lines 40-55)
CategoriesBlock(raw_) ==
  LET cats == Get(raw_, s_categories)
  IN IF cats.t = "array" THEN ArrayCategories(cats.v, LoopStart)
     ELSE IF Truthy(cats) /\ TypeOf(cats) = "object"
          THEN MapCategories(Entries(cats), LoopStart)
          ELSE LoopStart

\* The FAQ block of raw (lines 58-76)
FaqsBlock(raw_, st) ==
  LET faqs == Get(raw_, s_faqs)
  IN IF Truthy(faqs) /\ TypeOf(faqs) = "object"
     THEN FaqEntries(Entries(faqs), st)
     ELSE st

\* normalizeFaqData(raw): the dataset, or Thrown when a statement raised
normalizeFaqData(raw_) ==
  IF ~Truthy(raw_) \/ TypeOf(raw_) # "object" THEN base
  ELSE LET rootSource == Or(Or(Get(raw_, s_rootMessage), Get(raw_, s_header)), Obj(<<>>))
           st == FaqsBlock(raw_, CategoriesBlock(raw_))
       IN IF st.thrown THEN Thrown
          ELSE Dataset(copyLanguageKeys(rootSource, s_en),
                       IF st.categories = <<>>
                       THEN <<Category(s_general, Str(s_General))>>
                       ELSE st.categories,
                       st.faqs)

\* Readers of a dataset
rootMessageOf(d) == Get(d, s_rootMessage)
categoriesOf(d) == Get(d, s_categories).v
faqsOf(d) == Get(d, s_faqs)
idOf(cat) == Get(cat, s_id).v
labelOf(x) == Get(x, s_label)
IsDataset(d) == d.t = "object"

---------------------------------------------------------------------------
(* src/faq-loader.mjs: the cached loader and the facade                    *)

\* faq.json on disk: absent, present but unreadable, present but not JSON,
\* or present with a JSON text that parses to v[1]
FileMissing == [t |-> "missing", v |-> <<>>]
FileUnreadable == [t |-> "unreadable", v |-> <<>>]
FileInvalid == [t |-> "invalid", v |-> <<>>]
FileJson(parsed) == [t |-> "json", v |-> <<parsed>>]

\* A failing loadFaq that also drops the cached dataset
loadFailedClearsCache(cache) == [faqData |-> Null, ret |-> Null]

\* A failing loadFaq: the early return of line 91 and the catch of line 104
\* leave the cache alone and return null
loadFailed(cache) == [faqData |-> cache, ret |-> Null]

\* A loadFaq that updates the cached dataset in place: the categories of
\* the old dataset stay
loadFaqInPlace(cache, file, force) ==
  IF Truthy(cache) /\ ~force THEN [faqData |-> cache, ret |-> cache]
  ELSE IF file.t # "json" THEN loadFailed(cache)
  ELSE LET normalized == normalizeFaqData(file.v[1])
       IN IF normalized = Thrown THEN loadFailed(cache)
          ELSE IF Truthy(cache)
          THEN [faqData |-> Put(normalized, s_categories, Get(cache, s_categories)),
                ret |-> Put(normalized, s_categories, Get(cache, s_categories))]
          ELSE [faqData |-> normalized, ret |-> normalized]

\* loadFaq(force) with the cache and faq.json as they are: the new value of
\* the module variable faqData, and the value returned.  existsSync false,
\* readFileSync raising, JSON.parse raising and normalizeFaqData raising all
\* happen before the assignment of line 96 completes.
loadFaq(cache, file, force) ==
  IF Truthy(cache) /\ ~force THEN [faqData |-> cache, ret |-> cache]
  ELSE IF file.t # "json" THEN loadFailed(cache)
  ELSE LET normalized == normalizeFaqData(file.v[1])
       IN IF normalized = Thrown THEN loadFailed(cache)
          ELSE [faqData |-> normalized, ret |-> normalized]

\* getFaqContent without the fallback to the 'en' content
getFaqContentNoFallback(data, key, lang) ==
  IF ~Truthy(OptGet(OptGet(data, s_faqs), key)) THEN Null
  ELSE Or(OptGet(Get(Get(Get(data, s_faqs), key), s_content), lang), Null)

\* getFaqContent(key, lang) over the dataset loadFaq() returned
getFaqContent(data, key, lang) ==
  IF ~Truthy(OptGet(OptGet(data, s_faqs), key)) THEN Null
  ELSE LET content == Get(Get(Get(data, s_faqs), key), s_content)
       IN Or(Or(OptGet(content, lang), OptGet(content, s_en)), Null)

\* Longest label getFaqsByCategory returns
LabelLimit == 100

\* s.substring(0, n)
substring0(s, n) == SubSeq(s, 1, IF Len(s) < n THEN Len(s) ELSE n)

\* Object.values(faq.content).some(v => v && v.trim())
someNonBlank(content) ==
  \E i \in 1..Len(Values(content)) :
    LET v == Values(content)[i]
    IN Truthy(v) /\ v.t = "string" /\ trim(v.v) # <<>>

\* The object literal {key, label} pushed by getFaqsByCategory
FaqOption(key, label) == Obj(<< <<s_key, Str(key)>>, <<s_label, Str(label)>> >>)

\* The loop of getFaqsByCategory over Object.entries(data.faqs): the result
\* array, or Thrown when faq.label has no substring method
RECURSIVE byCategoryLoop(_, _, _)
byCategoryLoop(es, category, result) ==
  IF es = <<>> THEN Arr(result)
  ELSE LET key == Head(es)[1]
           faq == Head(es)[2]
           hasContent == Truthy(OptGet(faq, s_content)) /\ someNonBlank(Get(faq, s_content))
           hasLabel == Truthy(OptGet(faq, s_label))
       IN IF Get(faq, s_categoryId) = Str(category) /\ hasContent /\ hasLabel
          THEN IF Get(faq, s_label).t # "string" THEN Thrown
               ELSE byCategoryLoop(Tail(es), category,
                      Append(result,
                             FaqOption(key, substring0(Get(faq, s_label).v, LabelLimit))))
          ELSE byCategoryLoop(Tail(es), category, result)

\* getFaqsByCategory(category) over the dataset loadFaq() returned
getFaqsByCategory(data, category) ==
  IF ~Truthy(OptGet(data, s_faqs)) THEN Arr(<<>>)
  ELSE byCategoryLoop(Entries(Get(data, s_faqs)), category, <<>>)

\* faqExists(key) over the dataset loadFaq() returned
faqExists(data, key) == Bool(In(key, Or(OptGet(data, s_faqs), Obj(<<>>))))

\* getFaqHeader(lang) over the dataset loadFaq() returned
getFaqHeader(data, lang) ==
  Or(Or(OptGet(OptGet(data, s_rootMessage), lang),
        OptGet(OptGet(data, s_rootMessage), s_en)),
     Str(<<>>))

\* getAvailableLanguages() over the dataset loadFaq() returned
getAvailableLanguages(data) ==
  IF ~Truthy(OptGet(data, s_rootMessage)) THEN Arr(<<Str(s_en)>>)
  ELSE Arr([i \in 1..Len(Keys(Get(data, s_rootMessage))) |->
              Str(Keys(Get(data, s_rootMessage))[i])])

---------------------------------------------------------------------------
(* src/index.mjs: parseContentMarkers                                      *)

l_file == <<"[", "f", "i", "l", "e", ":">>
l_link == <<"[", "l", "i", "n", "k", ":">>
l_http == <<"h", "t", "t", "p", ":", "/", "/">>
l_https == <<"h", "t", "t", "p", "s", ":", "/", "/">>
l_webm == <<".", "w", "e", "b", "m">>
l_mp4 == <<".", "m", "p", "4">>
l_webp == <<".", "w", "e", "b", "p">>
l_image == <<"i", "m", "a", "g", "e">>
l_video == <<"v", "i", "d", "e", "o">>

\* The literal p stands in s at position i (1-based)
IsPrefixAt(s, i, p) ==
  /\ i + Len(p) - 1 <= Len(s)
  /\ \A j \in 1..Len(p) : s[i + j - 1] = p[j]

startsWith(s, p) == IsPrefixAt(s, 1, p)
endsWith(s, p) == Len(p) <= Len(s) /\ IsPrefixAt(s, Len(s) - Len(p) + 1, p)
includes(s, c) == \E i \in 1..Len(s) : s[i] = c

\* A greedy character class [^...]+ started at i stops at the first
\* position that holds a character of `stop`, or past the end of s
RunEnd(s, i, stop) ==
  CHOOSE j \in i..(Len(s) + 1) :
    /\ j = Len(s) + 1 \/ s[j] \in stop
    /\ \A k \in i..(j - 1) : s[k] \notin stop

\* fileRegex /\[file:(https?:\/\/[^\]]+|[^\]]+)\]/ matches at position i:
\* both alternatives take the whole run of characters other than ']'
FileMatchAt(s, i) ==
  /\ IsPrefixAt(s, i, l_file)
  /\ RunEnd(s, i + Len(l_file), {"]"}) > i + Len(l_file)
  /\ RunEnd(s, i + Len(l_file), {"]"}) <= Len(s)

\* The marker pushed for the match of fileRegex at i (index is 0-based)
FileMarker(s, i) ==
  [type |-> "file", index |-> i - 1,
   length |-> RunEnd(s, i + Len(l_file), {"]"}) - i + 1,
   fileRef |-> SubSeq(s, i + Len(l_file), RunEnd(s, i + Len(l_file), {"]"}) - 1),
   url |-> <<>>, label |-> <<>>]

\* Where the URL of a link marker at i continues after https?:\/\/, or 0
AfterScheme(s, i) ==
  IF IsPrefixAt(s, i + Len(l_link), l_https) THEN i + Len(l_link) + Len(l_https)
  ELSE IF IsPrefixAt(s, i + Len(l_link), l_http) THEN i + Len(l_link) + Len(l_http)
  ELSE 0

\* Position of the '|' that ends the URL of a link marker at i
UrlEnd(s, i) == RunEnd(s, AfterScheme(s, i), {"]", "|"})

\* linkRegex /\[link:(https?:\/\/[^\]|]+)\|([^\]]+)\]/ matches at position i
LinkMatchAt(s, i) ==
  /\ IsPrefixAt(s, i, l_link)
  /\ AfterScheme(s, i) # 0
  /\ UrlEnd(s, i) > AfterScheme(s, i)
  /\ UrlEnd(s, i) <= Len(s)
  /\ s[UrlEnd(s, i)] = "|"
  /\ RunEnd(s, UrlEnd(s, i) + 1, {"]"}) > UrlEnd(s, i) + 1
  /\ RunEnd(s, UrlEnd(s, i) + 1, {"]"}) <= Len(s)

\* The marker pushed for the match of linkRegex at i
LinkMarker(s, i) ==
  [type |-> "link", index |-> i - 1,
   length |-> RunEnd(s, UrlEnd(s, i) + 1, {"]"}) - i + 1,
   fileRef |-> <<>>,
   url |-> SubSeq(s, i + Len(l_link), UrlEnd(s, i) - 1),
   label |-> SubSeq(s, UrlEnd(s, i) + 1, RunEnd(s, UrlEnd(s, i) + 1, {"]"}) - 1)]

\* while ((match = fileRegex.exec(text)) !== null): the matches from
\* position `from` on, each search resuming after the previous match
RECURSIVE fileMatches(_, _)
fileMatches(s, from) ==
  IF \E i \in from..Len(s) : FileMatchAt(s, i)
  THEN LET i == CHOOSE i \in from..Len(s) :
                  FileMatchAt(s, i) /\ \A k \in from..(i - 1) : ~FileMatchAt(s, k)
       IN <<FileMarker(s, i)>> \o fileMatches(s, i + FileMarker(s, i).length)
  ELSE <<>>

\* while ((match = linkRegex.exec(text)) !== null)
RECURSIVE linkMatches(_, _)
linkMatches(s, from) ==
  IF \E i \in from..Len(s) : LinkMatchAt(s, i)
  THEN LET i == CHOOSE i \in from..Len(s) :
                  LinkMatchAt(s, i) /\ \A k \in from..(i - 1) : ~LinkMatchAt(s, k)
       IN <<LinkMarker(s, i)>> \o linkMatches(s, i + LinkMarker(s, i).length)
  ELSE <<>>

\* The markers left in the order they were pushed
unsorted(ms) == ms

\* markers.sort((a, b) => a.index - b.index): Array.prototype.sort is
\* stable, so markers of equal index keep their order
RECURSIVE sortByIndex(_)
sortByIndex(ms) ==
  IF ms = <<>> THEN <<>>
  ELSE LET first == CHOOSE i \in 1..Len(ms) :
                      /\ \A k \in 1..Len(ms) : ms[i].index <= ms[k].index
                      /\ \A k \in 1..(i - 1) : ms[k].index # ms[i].index
       IN <<ms[first]>> \o
            sortByIndex(SubSeq(ms, 1, first - 1) \o SubSeq(ms, first + 1, Len(ms)))

\* The segments pushed to `parts`
TextPart(content) ==
  [type |-> "text", content |-> content, url |-> <<>>, label |-> <<>>, fileType |-> <<>>]
FilePart(url, fileType) ==
  [type |-> "file", content |-> <<>>, url |-> url, label |-> <<>>, fileType |-> fileType]
LinkPart(url, label) ==
  [type |-> "link", content |-> <<>>, url |-> url, label |-> label, fileType |-> <<>>]

\* const textContent = slice.trim(); if (textContent) parts.push(...), with
\* a variant of it that pushes the slice untrimmed
pushTextUntrimmed(ps, slice) ==
  IF trim(slice) # <<>> THEN Append(ps, TextPart(slice)) ELSE ps
pushText(ps, slice) ==
  IF trim(slice) # <<>> THEN Append(ps, TextPart(trim(slice))) ELSE ps

\* text.slice(from, to), both 0-based
slice(s, from, to) == SubSeq(s, from + 1, to)

\* The fileUrl of a file marker (lines 176-184): a JavaScript value
resolveFile(fileRef, images) ==
  IF startsWith(fileRef, l_http) \/ startsWith(fileRef, l_https) THEN Str(fileRef)
  ELSE IF includes(fileRef, ".") /\ (includes(fileRef, "/") \/ includes(fileRef, "."))
       THEN Str(l_https \o fileRef)
       ELSE IF Truthy(Get(images, fileRef)) THEN Get(images, fileRef) ELSE Null

\* The fileType of a resolved URL (lines 187-191)
fileTypeOf(fileUrl) ==
  IF \/ endsWith(toLowerCase(fileUrl), l_webm)
     \/ endsWith(toLowerCase(fileUrl), l_mp4)
     \/ endsWith(toLowerCase(fileUrl), l_webp)
  THEN l_video
  ELSE l_image

\* for (const marker of markers): the parts, or Thrown when fileUrl has no
\* toLowerCase method
RECURSIVE sweep(_, _, _, _, _)
sweep(s, images, ms, lastIndex, ps) ==
  IF ms = <<>>
  THEN Arr(IF lastIndex < Len(s) THEN pushText(ps, slice(s, lastIndex, Len(s))) ELSE ps)
  ELSE LET marker == Head(ms)
           withText == IF marker.index > lastIndex
                       THEN pushText(ps, slice(s, lastIndex, marker.index))
                       ELSE ps
           fileUrl == resolveFile(marker.fileRef, images)
       IN IF marker.type = "file" /\ Truthy(fileUrl) /\ fileUrl.t # "string"
          THEN Thrown
          ELSE sweep(s, images, Tail(ms), marker.index + marker.length,
                     IF marker.type = "link"
                     THEN Append(withText, LinkPart(marker.url, marker.label))
                     ELSE IF Truthy(fileUrl)
                          THEN Append(withText, FilePart(fileUrl.v, fileTypeOf(fileUrl.v)))
                          ELSE withText)

\* The markers of the text: the file matches, then the link matches
markersOf(s) == fileMatches(s, 1) \o linkMatches(s, 1)

\* parseContentMarkers(text) with the module's IMAGES table
parseContentMarkers(s, images) == sweep(s, images, sortByIndex(markersOf(s)), 0, <<>>)

---------------------------------------------------------------------------
(* src/index.mjs: the guild store and the root message                     *)
(*                                                                         *)
(* message.json is the sequence of its <<guildId, entry>> pairs in         *)
(* Object.entries order, empty when the file is missing.  Channel and      *)
(* message ids are positive numbers, 0 standing for null and undefined.    *)

\* A guild's entry of the store
Entry(channelId, messageId, nonce) ==
  [channelId |-> channelId, messageId |-> messageId, nonce |-> nonce]

\* const guildEntry = store.guilds[guildId] || { nonce: 1 }
NewEntry == Entry(0, 0, 1)

\* ensureStoreShape(raw): drops empty guild ids, defaults the nonce to 1
ensureStoreShape(guilds) ==
  LET kept == SelectSeq(guilds, LAMBDA e : e[1] # <<>>)
  IN [i \in 1..Len(kept) |->
        <<kept[i][1],
          Entry(kept[i][2].channelId, kept[i][2].messageId,
                IF kept[i][2].nonce = 0 THEN 1 ELSE kept[i][2].nonce)>>]

\* readStore() of the file, writeStore(d) as the file it leaves
readStore(file) == ensureStoreShape(file)
writeStore(d) == ensureStoreShape(d)

\* store.guilds[guildId]: whether it is there, and its value
HasGuild(guilds, g) == \E i \in 1..Len(guilds) : guilds[i][1] = g
GuildEntry(guilds, g) == guilds[CHOOSE i \in 1..Len(guilds) : guilds[i][1] = g][2]

\* store.guilds[guildId] = entry: in place, or appended as a new property
SetGuild(guilds, g, entry) ==
  IF HasGuild(guilds, g)
  THEN [i \in 1..Len(guilds) |-> IF guilds[i][1] = g THEN <<g, entry>> ELSE guilds[i]]
  ELSE Append(guilds, <<g, entry>>)

\* const nextNonce = (entry.nonce || 1) + 1, with a variant that reuses the
\* stored nonce
sameNonce(entry) == IF entry.nonce = 0 THEN 1 ELSE entry.nonce
nextNonce(entry) == (IF entry.nonce = 0 THEN 1 ELSE entry.nonce) + 1

\* `${n}` of a non-negative integer
RECURSIVE numberToString(_)
numberToString(n) ==
  IF n < 10 THEN <<Digits[n + 1]>>
  ELSE numberToString(n \div 10) \o <<Digits[(n % 10) + 1]>>

l_select == <<"s", "e", "l", "e", "c", "t">>
\* The fallback header of buildCv2Root, abbreviated
l_defaultHeader == <<"#", "#", " ", "F", "A", "Q">>

\* Longest placeholder of a menu, most options of a menu
PlaceholderLimit == 90
OptionLimit == 25

\* `${prefix}_${cat.id}:${nonce}`
customId(prefix, id, nonce) == prefix \o <<"_">> \o id \o <<":">> \o numberToString(nonce)

\* cat.label?.substring(0, 90) || cat.id: a JavaScript value, or Thrown for
\* a label that has no substring method
placeholder(cat) ==
  LET label == Get(cat, s_label)
  IN IF Nullish(label) THEN Get(cat, s_id)
     ELSE IF label.t # "string" THEN Thrown
     ELSE Or(Str(substring0(label.v, PlaceholderLimit)), Get(cat, s_id))

\* The string select of one category as an array of one menu, empty for a
\* category without FAQs; Thrown when the placeholder or getFaqsByCategory
\* raises
menuOf(data, cat, nonce) ==
  IF placeholder(cat) = Thrown \/ getFaqsByCategory(data, idOf(cat)) = Thrown THEN Thrown
  ELSE LET faqs == getFaqsByCategory(data, idOf(cat)).v
       IN IF faqs = <<>> THEN Arr(<<>>)
          ELSE Arr(<< [custom_id |-> customId(l_select, idOf(cat), nonce),
                       placeholder |-> placeholder(cat).v,
                       options |-> SubSeq(faqs, 1, IF Len(faqs) < OptionLimit THEN Len(faqs)
                                                   ELSE OptionLimit)] >>)

\* The menus of the categories in order (the map of line 261 and the loop
\* of line 272)
RECURSIVE menusOf(_, _, _)
menusOf(data, cats, nonce) ==
  IF cats = <<>> THEN Arr(<<>>)
  ELSE IF menuOf(data, Head(cats), nonce) = Thrown THEN Thrown
  ELSE IF menusOf(data, Tail(cats), nonce) = Thrown THEN Thrown
  ELSE Arr(menuOf(data, Head(cats), nonce).v \o menusOf(data, Tail(cats), nonce).v)

\* buildCv2Root(nonce) over the dataset loadFaq() returned: the header and
\* the select menus of the payload, or Thrown
buildCv2Root(data, nonce) ==
  LET menus == menusOf(data, IF Nullish(data) THEN <<>> ELSE categoriesOf(data), nonce)
  IN IF menus = Thrown THEN Thrown
     ELSE [t |-> "payload",
           v |-> menus.v,
           header |-> Or(getFaqHeader(data, s_en), Str(l_defaultHeader)).v]

\* /^select_[a-z0-9_]+:\d+$/.test(customId)
IdChars == {LowerCase[i] : i \in 1..Len(LowerCase)} \cup {Digits[i] : i \in 1..Len(Digits)} \cup {"_"}
DigitChars == {Digits[i] : i \in 1..Len(Digits)}
selectPattern(cid) ==
  /\ IsPrefixAt(cid, 1, l_select \o <<"_">>)
  /\ \E c \in (Len(l_select) + 3)..(Len(cid) - 1) :
       /\ cid[c] = ":"
       /\ \A k \in (Len(l_select) + 2)..(c - 1) : cid[k] \in IdChars
       /\ \A k \in (c + 1)..Len(cid) : cid[k] \in DigitChars

l_lang_btn == <<"l", "a", "n", "g", "_", "b", "t", "n">>
\* The text of a reply without content, abbreviated
l_notFound == <<"n", "/", "a">>

\* s.split(sep) for a separator of one character
RECURSIVE split(_, _)
split(s, sep) ==
  IF ~includes(s, sep) THEN <<s>>
  ELSE LET i == CHOOSE j \in 1..Len(s) : s[j] = sep /\ \A k \in 1..(j - 1) : s[k] # sep
       IN <<SubSeq(s, 1, i - 1)>> \o split(SubSeq(s, i + 1, Len(s)), sep)

\* buildLanguageToggle(contentKey, currentLang): the custom id of its button
buildLanguageToggle(contentKey, currentLang) ==
  l_lang_btn \o <<":">> \o contentKey \o <<":">> \o (IF currentLang = s_en THEN s_pt ELSE s_en)

\* buildCv2Reply(contentKey, lang) over the dataset loadFaq() returned: the
\* entry and language it shows, its parsed text and its toggle button
buildCv2Reply(data, images, contentKey, lang) ==
  LET content == Or(getFaqContent(data, contentKey, lang), Str(l_notFound))
  IN IF content = Thrown \/ content.t # "string" THEN Thrown
     ELSE IF parseContentMarkers(content.v, images) = Thrown THEN Thrown
     ELSE [t |-> "reply", key |-> contentKey, lang |-> lang,
           v |-> parseContentMarkers(content.v, images).v,
           custom_id |-> buildLanguageToggle(contentKey, lang)]

\* The lang_btn handler's reading of a custom id (lines 797-798):
\* const [, contentKey, newLang] = customId.split(':'), then the language
pressedKey(cid) == IF Len(split(cid, ":")) >= 2 THEN split(cid, ":")[2] ELSE <<>>
pressedLang(cid) ==
  IF Len(split(cid, ":")) >= 3 /\ split(cid, ":")[3] = s_pt THEN s_pt ELSE s_en

---------------------------------------------------------------------------
(* Inputs of normalizeFaqData: parsed JSON values                          *)

\* Total number of categories-block elements plus FAQ entries of one input
MaxItems == 3

SeqsUpTo(S, n) == UNION {[1..k -> S] : k \in 0..n}

\* An object from <<key, value>> pairs; a pair whose value is Undef is an
\* absent property
MkObj(pairs) == Obj(SelectSeq(pairs, LAMBDA p : p[2] # Undef))

c_A == <<"A">>
c_a == <<"a">>
c_b == <<"b">>
c_B == <<"B">>
c_x == <<"x">>
c_y == <<"y">>
c_spA == <<" ", "A">>
c_spa == <<" ", "a">>
c_asp == <<"a", " ">>
c_blank == <<" ">>
c_Foo == <<"F", "o", "o">>
c_Bar == <<"B", "a", "r">>
c_de == <<"d", "e">>

\* Elements of an array-form categories block
CategoryElements ==
  { MkObj(<< <<s_id, Str(c_A)>>, <<s_label, Str(c_Foo)>> >>),
    MkObj(<< <<s_id, Str(c_a)>>, <<s_label, Str(c_Bar)>> >>),
    MkObj(<< <<s_id, Str(c_spA)>> >>),
    MkObj(<< <<s_id, Str(<<>>)>>, <<s_key, Str(c_b)>>, <<s_label, Num(7)>> >>),
    MkObj(<< <<s_key, Str(c_blank)>> >>),
    Num(5),
    Null }

\* Entries of a mapping-form categories block
CategoryMapKeys == {c_A, c_a, c_asp}
CategoryMapValues ==
  { Str(c_Foo),
    MkObj(<< <<s_pt, Str(c_y)>>, <<s_en, Str(c_Bar)>> >>),
    MkObj(<< <<s_pt, Str(c_y)>> >>),
    Obj(<<>>),
    Null }
CategoryMapEntries == CategoryMapKeys \X CategoryMapValues

DistinctKeys(es) == \A i, j \in 1..Len(es) : es[i][1] = es[j][1] => i = j

\* The categories property of raw, with at most n elements
CategoriesOptions(n) ==
  {Undef, Str(c_x)}
    \cup {Arr(es) : es \in SeqsUpTo(CategoryElements, n)}
    \cup {Obj(es) : es \in {m \in SeqsUpTo(CategoryMapEntries, n) : DistinctKeys(m)}}

\* Raw FAQ entries
RawFaqs ==
  { MkObj(<< <<s_categoryId, Str(c_A)>>, <<s_label, Str(c_Foo)>>,
             <<s_content, MkObj(<< <<s_en, Str(c_x)>>, <<s_pt, Str(c_y)>> >>)>> >>),
    MkObj(<< <<s_category, Str(c_spa)>>,
             <<s_content, MkObj(<< <<s_en, Str(<<>>)>> >>)>> >>),
    MkObj(<< <<s_categoryId, Str(c_spA)>>, <<s_labels, MkObj(<< <<s_en, Str(c_Bar)>> >>)>>,
             <<s_content, MkObj(<< <<s_pt, Str(c_y)>>, <<s_en, Num(5)>>, <<c_de, Null>> >>)>> >>),
    MkObj(<< <<s_categoryId, Arr(<<>>)>>, <<s_content, Str(c_x)>> >>),
    MkObj(<< <<s_label, Num(5)>>, <<s_labels, Null>>,
             <<s_content, Arr(<<Str(c_x)>>)>> >>),
    Obj(<<>>),
    Null }

\* The key of the i-th FAQ of an input
FaqKey(i) == <<"k", Digits[i + 1]>>

\* The faqs property of raw, with at most n entries
FaqsOptions(n) ==
  {Undef, Str(c_x), Num(0)}
    \cup {Obj([i \in 1..Len(fs) |-> <<FaqKey(i), fs[i]>>]) : fs \in SeqsUpTo(RawFaqs, n)}
    \cup {Arr(fs) : fs \in SeqsUpTo(RawFaqs, 1)}

\* The <<rootMessage, header>> properties of raw
RootOptions ==
  { <<Undef, Undef>>,
    <<MkObj(<< <<s_pt, Str(c_y)>>, <<s_en, Str(c_x)>> >>), Undef>>,
    <<MkObj(<< <<s_pt, Str(c_y)>>, <<s_en, Num(5)>>, <<c_de, Null>> >>), Undef>>,
    <<Str(c_x), MkObj(<< <<s_en, Str(c_Foo)>> >>)>>,
    <<Null, MkObj(<< <<s_en, Str(c_Foo)>> >>)>>,
    <<Undef, Num(5)>>,
    <<Arr(<<Str(c_x)>>), Undef>> }

RawObject(root, cats, faqs) ==
  MkObj(<< <<s_rootMessage, root[1]>>, <<s_header, root[2]>>,
           <<s_categories, cats>>, <<s_faqs, faqs>> >>)

Size(x) == IF x.t \in {"array", "object"} THEN Len(x.v) ELSE 0

\* The values that are not objects with properties
NonObjectRaws ==
  {Null, Num(0), Num(5), Str(<<>>), Str(c_x), Arr(<<>>), Arr(<<Null>>)}

\* The object inputs: those that vary the categories and FAQ blocks, and
\* those that vary the root header
InputShape(root, cats, faqs) ==
  \/ root = <<Undef, Undef>> /\ Size(cats) + Size(faqs) <= MaxItems
  \/ Size(cats) = 0 /\ Size(faqs) <= 1

---------------------------------------------------------------------------
(* Specification of the normaliser as a pure function                      *)

Idle == [t |-> "idle", v |-> <<>>]

\* index.mjs is not running
BotIdle ==
  /\ testFile = Idle /\ store = Idle /\ discord = Idle
  /\ tasks = Idle /\ userLangCache = Idle

InitNormalize ==
  /\ \/ raw \in NonObjectRaws
     \/ \E root \in RootOptions, cats \in CategoriesOptions(MaxItems),
           faqs \in FaqsOptions(MaxItems) :
          /\ InputShape(root, cats, faqs)
          /\ raw = RawObject(root, cats, faqs)
  /\ out = NotRun
  /\ faqFile = Idle /\ faqData = Idle /\ op = Idle
  /\ text = <<>> /\ IMAGES = Idle /\ parts = Idle
  /\ BotIdle

Normalize ==
  /\ out = NotRun
  /\ out' = normalizeFaqData(raw)
  /\ UNCHANGED <<raw, faqFile, faqData, op, text, IMAGES, parts, botVars>>

NextNormalize == Normalize

SpecNormalize == InitNormalize /\ [][NextNormalize]_vars

---------------------------------------------------------------------------
(* Claims about normalizeFaqData                                           *)

\* raw.faqs is absent or is not an object, or raw itself is no object
FaqsAbsentOrNotObject(r) ==
  \/ r.t \notin {"object", "array"}
  \/ Get(r, s_faqs).t \notin {"object", "array"}

\* C1: for every raw input in which faqs is absent or is not an object
\* (a raw value that is null or not an object included), normalizeFaqData
\* returns a dataset whose faqs mapping is empty and whose categories list
\* has at least one category.
C1_EmptyFaqsOneCategory ==
  (out # NotRun /\ FaqsAbsentOrNotObject(raw)) =>
    /\ IsDataset(out)
    /\ faqsOf(out) = Obj(<<>>)
    /\ Len(categoriesOf(out)) >= 1

\* C2: in every dataset normalizeFaqData produces, every category id is
\* lowercase, has no leading or trailing whitespace and is non-empty.
C2_CategoryIdsNormalised ==
  IsDataset(out) =>
    \A i \in 1..Len(categoriesOf(out)) :
      LET id == idOf(categoriesOf(out)[i])
      IN id # <<>> /\ id = toLowerCase(id) /\ id = trim(id)

\* The places of raw that name a category, in input order: the elements of
\* the categories block, then the FAQ entries.  name is the id as written,
\* id the id the code derives from it, label the label that place gives.
ArrayOccurrence(cat) ==
  [name |-> toString(Or(Or(Or(Get(cat, s_id), Get(cat, s_key)), Get(cat, s_label)),
                        Str(<<>>))),
   id |-> ArrayCategoryId(cat),
   label |-> Or(Get(cat, s_label), Str(ArrayCategoryId(cat)))]
MapOccurrence(e) ==
  [name |-> e[1],
   id |-> toLowerCase(trim(e[1])),
   label |-> MapCategoryLabel(e[2], toLowerCase(trim(e[1])))]
FaqOccurrence(faq) ==
  [name |-> toString(Or(Or(Get(faq, s_categoryId), Get(faq, s_category)),
                        Str(s_general))),
   id |-> FaqCategoryId(faq),
   label |-> Str(FaqCategoryId(faq))]
BlockOccurrences(r) ==
  LET cats == Get(r, s_categories)
  IN IF cats.t = "array"
     THEN [i \in 1..Len(cats.v) |->
             IF Nullish(cats.v[i]) THEN [name |-> <<>>, id |-> <<>>, label |-> Undef]
             ELSE ArrayOccurrence(cats.v[i])]
     ELSE IF cats.t = "object" THEN [i \in 1..Len(cats.v) |-> MapOccurrence(cats.v[i])]
     ELSE <<>>
FaqOccurrences(r) ==
  LET faqs == Get(r, s_faqs)
  IN IF faqs.t \in {"object", "array"}
     THEN [i \in 1..Len(faqs.v) |->
             IF Nullish(Values(faqs)[i]) THEN [name |-> <<>>, id |-> <<>>, label |-> Undef]
             ELSE FaqOccurrence(Values(faqs)[i])]
     ELSE <<>>
Occurrences(r) ==
  IF r.t \notin {"object", "array"} THEN <<>>
  ELSE SelectSeq(BlockOccurrences(r) \o FaqOccurrences(r), LAMBDA o : o.id # <<>>)

CategoriesWithId(d, id) ==
  {i \in 1..Len(categoriesOf(d)) : idOf(categoriesOf(d)[i]) = id}

\* The first place of the input that names the id of place i up to case and
\* surrounding whitespace
FirstOccurrence(occs, i) ==
  CHOOSE j \in 1..Len(occs) :
    /\ toLowerCase(trim(occs[j].name)) = toLowerCase(trim(occs[i].name))
    /\ \A k \in 1..(j - 1) :
         toLowerCase(trim(occs[k].name)) # toLowerCase(trim(occs[i].name))

\* C3: when raw names category ids that differ only in letter case, the
\* dataset holds exactly one category for them, no two categories share an
\* id, and the kept category carries the label of the first occurrence.
C3_CaseInsensitiveUnique ==
  IsDataset(out) =>
    LET occs == Occurrences(raw)
        cats == categoriesOf(out)
    IN /\ \A i, j \in 1..Len(cats) : idOf(cats[i]) = idOf(cats[j]) => i = j
       /\ \A i, j \in 1..Len(occs) :
            (i # j /\ toLowerCase(occs[i].name) = toLowerCase(occs[j].name)) =>
              /\ occs[i].id = occs[j].id
              /\ Cardinality(CategoriesWithId(out, occs[i].id)) = 1
              /\ \A c \in CategoriesWithId(out, occs[i].id) :
                   labelOf(cats[c]) = occs[FirstOccurrence(occs, i)].label

\* The category id the claim gives an FAQ entry: its lower-cased raw
\* categoryId, else its raw category, else 'general'
ClaimedCategoryId(faq) ==
  toLowerCase(toString(IF Truthy(Get(faq, s_categoryId)) THEN Get(faq, s_categoryId)
                       ELSE IF Truthy(Get(faq, s_category)) THEN Get(faq, s_category)
                       ELSE Str(s_general)))

\* C16: in every normalized dataset each FAQ entry's categoryId is the
\* lower-cased raw categoryId, else the raw category, else 'general', and is
\* the id of some category of the dataset; a category that exists only
\* because an FAQ entry referenced it has its id as label.
C16_FaqCategoryListed ==
  IsDataset(out) =>
    LET faqs == faqsOf(out).v
        cats == categoriesOf(out)
        blockIds == {BlockOccurrences(raw)[j].id : j \in 1..Len(BlockOccurrences(raw))}
    IN /\ \A i \in 1..Len(faqs) :
            /\ Get(faqs[i][2], s_categoryId) =
                 Str(ClaimedCategoryId(Get(Get(raw, s_faqs), faqs[i][1])))
            /\ CategoriesWithId(out, Get(faqs[i][2], s_categoryId).v) # {}
       /\ \A c \in 1..Len(cats) :
            (/\ idOf(cats[c]) \notin blockIds
             /\ \E i \in 1..Len(faqs) : Get(faqs[i][2], s_categoryId) = Str(idOf(cats[c])))
              => labelOf(cats[c]) = Str(idOf(cats[c]))

---------------------------------------------------------------------------
(* Specification of the loader and the facade                              *)

\* A label of n characters
LabelOfLen(n) == [i \in 1..n |-> "x"]

c_zz == <<"z", "z">>
c_blankText == <<" ", "\n">>

\* Parsed contents of faq.json
FaqJsonTwoCategories ==
  MkObj(<< <<s_rootMessage, MkObj(<< <<s_en, Str(c_x)>>, <<s_pt, Str(c_y)>> >>)>>,
           <<s_categories, Arr(<<MkObj(<< <<s_id, Str(c_A)>>, <<s_label, Str(c_Foo)>> >>)>>)>>,
           <<s_faqs, MkObj(<<
              <<FaqKey(1), MkObj(<< <<s_categoryId, Str(c_A)>>, <<s_label, Str(c_Foo)>>,
                                    <<s_content, MkObj(<< <<s_en, Str(c_x)>>,
                                                          <<s_pt, Str(c_y)>> >>)>> >>)>>,
              <<FaqKey(2), MkObj(<< <<s_categoryId, Str(c_b)>>, <<s_label, Str(c_Bar)>>,
                                    <<s_content, MkObj(<< <<s_en, Str(c_x)>>,
                                                          <<s_pt, Str(<<>>)>> >>)>> >>)>>,
              <<FaqKey(3), MkObj(<< <<s_category, Str(c_a)>>,
                                    <<s_label, Str(LabelOfLen(LabelLimit + 1))>>,
                                    <<s_content, MkObj(<< <<s_pt, Str(c_y)>> >>)>> >>)>> >>)>> >>)
FaqJsonOddShapes ==
  MkObj(<< <<s_rootMessage, Num(5)>>,
           <<s_header, MkObj(<< <<s_pt, Str(c_y)>>, <<c_de, Num(5)>> >>)>>,
           <<s_faqs, MkObj(<<
              <<FaqKey(1), MkObj(<< <<s_label, Str(LabelOfLen(LabelLimit))>>,
                                    <<s_content, MkObj(<< <<s_en, Str(c_blankText)>>,
                                                          <<s_pt, Str(c_y)>>,
                                                          <<c_de, Null>> >>)>> >>)>>,
              <<FaqKey(2), MkObj(<< <<s_content, MkObj(<< <<s_en, Str(c_blankText)>> >>)>> >>)>>,
              <<<<>>, MkObj(<< <<s_content, MkObj(<< <<s_en, Str(c_x)>> >>)>> >>)>>,
              <<FaqKey(3), MkObj(<< <<s_labels, MkObj(<< <<s_en, Str(c_Bar)>> >>)>>,
                                    <<s_content, Str(c_x)>> >>)>> >>)>> >>)
FaqJsonNumberLabel ==
  MkObj(<< <<s_faqs, MkObj(<<
              <<FaqKey(1), MkObj(<< <<s_label, Num(5)>>,
                                    <<s_content, MkObj(<< <<s_en, Str(c_x)>> >>)>> >>)>> >>)>> >>)
FaqJsonNullCategory ==
  MkObj(<< <<s_categories, Arr(<<Null>>)>>,
           <<s_faqs, MkObj(<<
              <<FaqKey(1), MkObj(<< <<s_content, MkObj(<< <<s_en, Str(c_x)>> >>)>> >>)>> >>)>> >>)
FaqJsonOneFaq ==
  MkObj(<< <<s_faqs, MkObj(<<
              <<FaqKey(2), MkObj(<< <<s_category, Str(c_b)>>,
                                    <<s_content, MkObj(<< <<s_en, Str(c_x)>>,
                                                          <<s_pt, Str(c_y)>> >>)>> >>)>> >>)>> >>)

LoaderRaws ==
  {FaqJsonTwoCategories, FaqJsonOddShapes, FaqJsonNumberLabel, FaqJsonNullCategory,
   FaqJsonOneFaq, Null}

\* The states faq.json can be in
FaqFiles == {FileMissing, FileUnreadable, FileInvalid} \cup {FileJson(r) : r \in LoaderRaws}

\* Arguments of the facade calls
KeyArgs == {FaqKey(1), FaqKey(2), FaqKey(3), <<>>, c_zz, s_constructor}
LangArgs == {s_en, s_pt, c_de, s_constructor}
CategoryArgs == {c_a, c_b, c_A, s_general, c_zz}

Call(name, args, result) == [name |-> name, args |-> args, result |-> result]

\* The module body: faqData = null, then loadFaq() (lines 6 and 156)
Init ==
  /\ faqFile \in FaqFiles
  /\ \E loaded \in {loadFaq(Null, faqFile, FALSE)} :
       /\ faqData = loaded.faqData
       /\ op = Call("module", <<>>, loaded.ret)
  /\ raw = Idle /\ out = Idle
  /\ text = <<>> /\ IMAGES = Idle /\ parts = Idle
  /\ BotIdle

\* faq.json is created, replaced, damaged or removed
FaqFileChanges ==
  /\ \E f \in FaqFiles : faqFile' = f /\ faqFile' # faqFile
  /\ op' = Call("faqFileChanges", <<>>, Undef)
  /\ UNCHANGED <<faqData, raw, out, text, IMAGES, parts, botVars>>

\* Every exported function starts with a call of loadFaq, whose outcome is
\* `loaded`: it sets the cache, and the function then reads loaded.ret.
Loaded(loaded) ==
  /\ faqData' = loaded.faqData
  /\ UNCHANGED <<faqFile, raw, out, text, IMAGES, parts, botVars>>

\* loadFaq()
LoadFaq ==
  \E loaded \in {loadFaq(faqData, faqFile, FALSE)} :
    /\ op' = Call("loadFaq", <<>>, loaded.ret)
    /\ Loaded(loaded)

\* reloadFaq(), that is loadFaq(true)
ReloadFaq ==
  \E loaded \in {loadFaq(faqData, faqFile, TRUE)} :
    /\ op' = Call("reloadFaq", <<>>, loaded.ret)
    /\ Loaded(loaded)

\* getFaqContent(key, lang)
GetFaqContent ==
  \E key \in KeyArgs, lang \in LangArgs, loaded \in {loadFaq(faqData, faqFile, FALSE)} :
    /\ op' = Call("getFaqContent", <<key, lang>>, getFaqContent(loaded.ret, key, lang))
    /\ Loaded(loaded)

\* getFaqsByCategory(category)
GetFaqsByCategory ==
  \E category \in CategoryArgs, loaded \in {loadFaq(faqData, faqFile, FALSE)} :
    /\ op' = Call("getFaqsByCategory", <<category>>,
                  getFaqsByCategory(loaded.ret, category))
    /\ Loaded(loaded)

\* faqExists(key)
FaqExists ==
  \E key \in KeyArgs, loaded \in {loadFaq(faqData, faqFile, FALSE)} :
    /\ op' = Call("faqExists", <<key>>, faqExists(loaded.ret, key))
    /\ Loaded(loaded)

\* getFaqHeader(lang)
GetFaqHeader ==
  \E lang \in LangArgs, loaded \in {loadFaq(faqData, faqFile, FALSE)} :
    /\ op' = Call("getFaqHeader", <<lang>>, getFaqHeader(loaded.ret, lang))
    /\ Loaded(loaded)

\* getAvailableLanguages()
GetAvailableLanguages ==
  \E loaded \in {loadFaq(faqData, faqFile, FALSE)} :
    /\ op' = Call("getAvailableLanguages", <<>>, getAvailableLanguages(loaded.ret))
    /\ Loaded(loaded)

Next ==
  \/ FaqFileChanges
  \/ LoadFaq
  \/ ReloadFaq
  \/ GetFaqContent
  \/ GetFaqsByCategory
  \/ FaqExists
  \/ GetFaqHeader
  \/ GetAvailableLanguages

Spec == Init /\ [][Next]_vars

---------------------------------------------------------------------------
(* Claims about the loader and the facade                                  *)

\* v is not an object in the sense of copyLanguageKeys: falsy, or a primitive
NonObject(x) == ~Truthy(x) \/ TypeOf(x) # "object"

\* m is a language map: it has the key 'en' and all its values are strings
IsLanguageMap(m) ==
  /\ m.t = "object"
  /\ HasOwn(m, s_en)
  /\ \A i \in 1..Len(m.v) : m.v[i][2].t = "string"

\* Every entry of the language map m is a string-valued entry of one of the
\* raw maps, or the inserted en: ''
FromRawMaps(m, sources) ==
  \A i \in 1..Len(m.v) :
    \/ m.v[i] = <<s_en, Str(<<>>)>>
    \/ \E src \in sources :
         /\ ~NonObject(src)
         /\ \E j \in 1..Len(Entries(src)) :
              Entries(src)[j] = m.v[i] /\ m.v[i][2].t = "string"

\* The language maps of the dataset d are what the claim says of the maps
\* of the raw input r it was normalised from
MapsFollowRaw(d, r) ==
  /\ FromRawMaps(rootMessageOf(d), {Get(r, s_rootMessage), Get(r, s_header)})
  /\ (NonObject(Get(r, s_rootMessage)) /\ NonObject(Get(r, s_header))) =>
       rootMessageOf(d) = EmptyLanguageMap(s_en)
  /\ \A i \in 1..Len(faqsOf(d).v) :
       LET content == Get(faqsOf(d).v[i][2], s_content)
           rawContent == Get(Get(Get(r, s_faqs), faqsOf(d).v[i][1]), s_content)
       IN /\ FromRawMaps(content, {rawContent})
          /\ NonObject(rawContent) => content = EmptyLanguageMap(s_en)

\* C4: in every dataset loadFaq/reloadFaq ever return, rootMessage and the
\* content of every FAQ entry are language maps with the key 'en' and only
\* string values; non-string values of the raw maps never appear, and a
\* raw map that is not an object yields exactly {en: ''}.
C4_LanguageMaps ==
  /\ (op.name \in {"module", "loadFaq", "reloadFaq"} /\ Truthy(op.result)) =>
       op.result = faqData
  /\ Truthy(faqData) =>
       /\ IsLanguageMap(rootMessageOf(faqData))
       /\ \A i \in 1..Len(faqsOf(faqData).v) :
            IsLanguageMap(Get(faqsOf(faqData).v[i][2], s_content))
       /\ \A r \in LoaderRaws :
            (r.t = "object" /\ normalizeFaqData(r) = faqData) => MapsFollowRaw(faqData, r)

\* A dataset with raw maps that hold non-string values, a non-object root
\* message and a non-object content has been returned by reloadFaq
C4_Witness ==
  /\ op.name = "reloadFaq"
  /\ op.result = normalizeFaqData(FaqJsonOddShapes)
  /\ faqFile = FileJson(FaqJsonOddShapes)

\* key is a key of the cached dataset
KeyPresent(key) == Truthy(faqData) /\ HasOwn(faqsOf(faqData), key)
ContentOf(key) == Get(Get(faqsOf(faqData), key), s_content)

NonEmpty(m, lang) == HasOwn(m, lang) /\ Get(m, lang) # Str(<<>>)

\* lang is a language code: a string that names no member every JavaScript
\* object inherits
LanguageCode(lang) == lang \notin ObjectPrototypeKeys

FirstChars(s, n) == [i \in 1..(IF Len(s) < n THEN Len(s) ELSE n) |-> s[i]]

\* The entries getFaqsByCategory is to return for a category, per the claim
Listed(e, category) ==
  /\ Get(e[2], s_categoryId) = Str(category)
  /\ \E i \in 1..Len(Get(e[2], s_content).v) :
       trim(Get(e[2], s_content).v[i][2].v) # <<>>
  /\ labelOf(e[2]) # Str(<<>>)
ExpectedOptions(d, category) ==
  LET listed == SelectSeq(faqsOf(d).v, LAMBDA e : Listed(e, category))
  IN [i \in 1..Len(listed) |->
        Obj(<< <<s_key, Str(listed[i][1])>>,
               <<s_label, Str(FirstChars(toString(labelOf(listed[i][2])), LabelLimit))>> >>)]

\* C6: getFaqsByCategory(categoryId) returns exactly the entries of the
\* cached dataset with that categoryId, a non-blank content value and a
\* non-empty label, in FAQ insertion order, each as {key, label} with label
\* the first 100 characters of the entry's label.
C6_ByCategory ==
  (op.name = "getFaqsByCategory" /\ Truthy(faqData)) =>
    /\ op.result = Arr(ExpectedOptions(faqData, op.args[1]))
    /\ \A i \in 1..Len(op.result.v) : Len(labelOf(op.result.v[i]).v) <= LabelLimit

\* category is the id of no category and the categoryId of no FAQ entry
UnknownCategory(category) ==
  Truthy(faqData) =>
    /\ \A i \in 1..Len(categoriesOf(faqData)) : idOf(categoriesOf(faqData)[i]) # category
    /\ \A i \in 1..Len(faqsOf(faqData).v) :
         Get(faqsOf(faqData).v[i][2], s_categoryId) # Str(category)

\* C7: lookups of something that is not there never raise and return the
\* empty result: [] for an unknown category, null and false for an unknown
\* key, the 'en' header or '' for an unknown language; also when no dataset
\* was ever loaded.
C7_NotFoundIsEmpty ==
  /\ op.result # Thrown \/ op.name # "getFaqsByCategory" \/ ~UnknownCategory(op.args[1])
  /\ (op.name = "getFaqsByCategory" /\ UnknownCategory(op.args[1])) =>
       op.result = Arr(<<>>)
  /\ (op.name = "getFaqContent" /\ ~KeyPresent(op.args[1])) => op.result = Null
  /\ (op.name = "faqExists" /\ ~KeyPresent(op.args[1])) => op.result = Bool(FALSE)
  /\ (op.name = "getFaqHeader"
        /\ (Truthy(faqData) => ~HasOwn(rootMessageOf(faqData), op.args[1]))) =>
       op.result = IF Truthy(faqData) THEN Get(rootMessageOf(faqData), s_en) ELSE Str(<<>>)

\* A reload in the present state fails: faq.json is missing, unreadable,
\* not JSON, or normalizeFaqData raises on it
ReloadFails ==
  \/ faqFile.t # "json"
  \/ normalizeFaqData(faqFile.v[1]) = Thrown

\* C10: a reload that fails returns null and leaves the cached dataset
\* unchanged, and while a dataset is cached no call but a reload changes
\* it: every later read returns the dataset of before the failed reload
\* until a reload succeeds.
C10_FailedReloadKeepsCache ==
  [][/\ (op'.name = "reloadFaq" /\ ReloadFails) =>
          (op'.result = Null /\ faqData' = faqData)
     /\ (op'.name = "reloadFaq" /\ op'.result = Null) => ReloadFails
     /\ (Truthy(faqData) /\ op'.name # "reloadFaq") => faqData' = faqData
     /\ (Truthy(faqData) /\ op'.name = "loadFaq") => op'.result = faqData]_vars

\* A reload has failed while a dataset was cached, and the dataset is still
\* the cached one
C10_Witness ==
  /\ op.name = "reloadFaq"
  /\ op.result = Null
  /\ Truthy(faqData)
  /\ ReloadFails

\* C13: the core never raises for data-shape problems: normalizeFaqData
\* returns a dataset for every parsed JSON value faq.json can hold, and no
\* facade lookup over the dataset raises.
C13_NeverRaises ==
  /\ faqFile.t = "json" => normalizeFaqData(faqFile.v[1]) # Thrown
  /\ op.result # Thrown

---------------------------------------------------------------------------
(* Specification of the content parser as a pure function of the text and  *)
(* of the IMAGES table.  IMAGES is a constant of the source, empty as      *)
(* shipped; a deployment fills it by editing that line, so the table is an *)
(* input here.                                                             *)

MaxPieces == 3

c_catpng == <<"c", "a", "t", ".", "p", "n", "g">>
c_logo == <<"l", "o", "g", "o">>
c_here == <<"h", "e", "r", "e">>
c_See == <<"S", "e", "e", " ">>
c_and == <<" ", "a", "n", "d", " ">>
c_acom == l_https \o <<"a", ".", "c", "o", "m">>
c_movie == c_acom \o <<"/", "v", ".", "M", "P", "4">>
c_cdnCat == l_https \o <<"c", "d", "n", "/">> \o c_catpng
c_cdnLogo == l_https \o <<"c", "d", "n", "/">> \o c_logo \o l_webm

\* The text of a marker
FileText(fileRef) == l_file \o fileRef \o <<"]">>
LinkText(url, label) == l_link \o url \o <<"|">> \o label \o <<"]">>

\* The pieces content texts are made of: whole markers, plain text, and
\* the fragments of broken markers
Pieces ==
  { FileText(c_catpng), FileText(c_logo), FileText(c_movie), FileText(s_constructor),
    LinkText(c_acom, c_here), c_See, c_and, c_blankText,
    l_file, <<"]">>, <<"|", "x">>, l_link \o l_http \o c_b }

RECURSIVE Concat(_)
Concat(ps) == IF ps = <<>> THEN <<>> ELSE Head(ps) \o Concat(Tail(ps))

\* "See [file:cat.png] and [link:https://a.com|here]"
ExampleText == c_See \o FileText(c_catpng) \o c_and \o LinkText(c_acom, c_here)

\* const IMAGES = {} and two filled tables
NoImages == Obj(<<>>)
CatImages == Obj(<< <<c_catpng, Str(c_cdnCat)>> >>)
ImageTables ==
  { NoImages, CatImages,
    Obj(<< <<c_catpng, Str(c_cdnCat)>>, <<c_logo, Str(c_cdnLogo)>> >>) }

InitParse ==
  /\ \/ \E ps \in SeqsUpTo(Pieces, MaxPieces) : text = Concat(ps)
     \/ text = ExampleText
  /\ IMAGES \in ImageTables
  /\ parts = NotRun
  /\ raw = Idle /\ out = Idle
  /\ faqFile = Idle /\ faqData = Idle /\ op = Idle
  /\ BotIdle

\* parseContentMarkers(text)
Parse ==
  /\ parts = NotRun
  /\ parts' = parseContentMarkers(text, IMAGES)
  /\ UNCHANGED <<text, IMAGES, raw, out, faqFile, faqData, op, botVars>>

NextParse == Parse

SpecParse == InitParse /\ [][NextParse]_vars

---------------------------------------------------------------------------
(* Claims about parseContentMarkers                                        *)

\* The text holds "[file:", one or more characters other than ']', and ']'
ContainsFileMarker(s) ==
  \E i \in 1..Len(s) :
    /\ IsPrefixAt(s, i, l_file)
    /\ \E j \in (i + Len(l_file) + 1)..Len(s) :
         /\ s[j] = "]"
         /\ \A k \in (i + Len(l_file))..(j - 1) : s[k] # "]"

\* The text holds "[link:", an http(s) URL of one or more characters other
\* than ']' and '|' after the scheme, '|', a label of one or more
\* characters other than ']', and ']'
ContainsLinkMarker(s) ==
  \E i \in 1..Len(s), scheme \in {l_http, l_https} :
    /\ IsPrefixAt(s, i, l_link \o scheme)
    /\ \E u \in (i + Len(l_link \o scheme) + 1)..Len(s) :
         /\ s[u] = "|"
         /\ \A k \in (i + Len(l_link \o scheme))..(u - 1) : s[k] \notin {"]", "|"}
         /\ \E j \in (u + 2)..Len(s) :
              /\ s[j] = "]"
              /\ \A k \in (u + 1)..(j - 1) : s[k] # "]"

\* C8: for a content text with no file marker and no link marker,
\* parseContentMarkers returns exactly one text segment whose content is the
\* trimmed text, or no segment when the text is empty or only whitespace.
C8_NoMarkersOneText ==
  (parts # NotRun /\ ~ContainsFileMarker(text) /\ ~ContainsLinkMarker(text))
    => parts = Arr(IF trim(text) = <<>> THEN <<>> ELSE <<TextPart(trim(text))>>)

\* A text with brackets but no marker, and with whitespace to trim, parsed
C8_Witness ==
  /\ parts # NotRun
  /\ ~ContainsFileMarker(text) /\ ~ContainsLinkMarker(text)
  /\ includes(text, "[")
  /\ trim(text) # <<>> /\ trim(text) # text

\* C9: a file marker whose reference is a name of the image table resolves
\* to the table's URL for that name; the example text, parsed with the table
\* {cat.png: https://cdn/cat.png}, yields Text("See"),
\* File("https://cdn/cat.png", image), Text("and"),
\* Link("https://a.com", "here").
C9_TableNameResolves ==
  parts # NotRun =>
    /\ \A i \in 1..Len(Keys(IMAGES)) :
         text = FileText(Keys(IMAGES)[i])
           => parts = Arr(<<FilePart(Values(IMAGES)[i].v,
                                     fileTypeOf(Values(IMAGES)[i].v))>>)
    /\ (text = ExampleText /\ IMAGES = CatImages)
         => parts = Arr(<<TextPart(trim(c_See)), FilePart(c_cdnCat, l_image),
                          TextPart(trim(c_and)), LinkPart(c_acom, c_here)>>)

\* A file marker / a link marker stands at position i of the text
FileAt(s, i) ==
  /\ IsPrefixAt(s, i, l_file)
  /\ \E j \in (i + Len(l_file) + 1)..Len(s) :
       /\ s[j] = "]"
       /\ \A k \in (i + Len(l_file))..(j - 1) : s[k] # "]"
LinkAt(s, i) ==
  \E scheme \in {l_http, l_https} :
    /\ IsPrefixAt(s, i, l_link \o scheme)
    /\ \E u \in (i + Len(l_link \o scheme) + 1)..Len(s) :
         /\ s[u] = "|"
         /\ \A k \in (i + Len(l_link \o scheme))..(u - 1) : s[k] \notin {"]", "|"}
         /\ \E j \in (u + 2)..Len(s) :
              /\ s[j] = "]"
              /\ \A k \in (u + 1)..(j - 1) : s[k] # "]"

\* The first position after i that holds c: the ']' that ends a marker at
\* i, the '|' that ends the URL of a link marker at i
FirstAfter(s, i, c) ==
  CHOOSE j \in (i + 1)..Len(s) : s[j] = c /\ \A k \in (i + 1)..(j - 1) : s[k] # c

\* A marker starts at i: a marker stands there and lies in no earlier
\* marker of its own kind
MarkerStart(s, i) ==
  \/ /\ FileAt(s, i)
     /\ ~\E h \in 1..(i - 1) : FileAt(s, h) /\ FirstAfter(s, h, "]") >= i
  \/ /\ LinkAt(s, i)
     /\ ~\E h \in 1..(i - 1) : LinkAt(s, h) /\ FirstAfter(s, h, "]") >= i

\* The segment of the marker at i: none for a file reference that resolves
\* to nothing
MarkerSegment(s, i, images) ==
  IF FileAt(s, i)
  THEN LET fileUrl == resolveFile(SubSeq(s, i + Len(l_file), FirstAfter(s, i, "]") - 1),
                                  images)
       IN IF Truthy(fileUrl) THEN <<FilePart(fileUrl.v, fileTypeOf(fileUrl.v))>> ELSE <<>>
  ELSE <<LinkPart(SubSeq(s, i + Len(l_link), FirstAfter(s, i, "|") - 1),
                  SubSeq(s, FirstAfter(s, i, "|") + 1, FirstAfter(s, i, "]") - 1))>>

\* The text segment of a span of the text: none for a blank span
SpanSegment(s, from, to) ==
  IF trim(SubSeq(s, from, to)) = <<>> THEN <<>> ELSE <<TextPart(trim(SubSeq(s, from, to)))>>

\* The segments the claim gives for the markers that start at `from` or
\* later, prevEnd being the end of the marker before them
RECURSIVE SegmentsFrom(_, _, _, _)
SegmentsFrom(s, images, from, prevEnd) ==
  IF \E i \in from..Len(s) : MarkerStart(s, i)
  THEN LET i == CHOOSE i \in from..Len(s) :
                  MarkerStart(s, i) /\ \A k \in from..(i - 1) : ~MarkerStart(s, k)
       IN SpanSegment(s, prevEnd + 1, i - 1) \o MarkerSegment(s, i, images)
            \o SegmentsFrom(s, images, i + 1, FirstAfter(s, i, "]"))
  ELSE SpanSegment(s, prevEnd + 1, Len(s))

\* C15: parseContentMarkers emits, for each marker in order of start
\* offset, a text segment for the non-blank trimmed span between the end of
\* the previous marker and the marker, then the marker's own segment, and
\* last a text segment for the non-blank trimmed remainder; no text segment
\* is empty or has leading or trailing whitespace.
C15_SegmentsInTextOrder ==
  parts # NotRun =>
    /\ parts = Arr(SegmentsFrom(text, IMAGES, 1, 0))
    /\ \A i \in 1..Len(parts.v) :
         parts.v[i].type = "text" =>
           parts.v[i].content # <<>> /\ trim(parts.v[i].content) = parts.v[i].content

---------------------------------------------------------------------------
(* Specification of the handlers of index.mjs.  A handler runs without     *)
(* interruption between two awaits, so each action is the code between two *)
(* awaits of one handler, and the handlers in flight interleave at their   *)
(* awaits.  Every guild has one text channel.  A Discord request takes     *)
(* effect when it is issued.                                               *)

MaxNonce == 3
MaxMessages == 2

g1 == <<"g", "1">>
g2 == <<"g", "2">>
Guilds == {g1, g2}

\* The text channel of a guild
ChannelOf(g) == IF g = g1 THEN 1 ELSE 2

l_faq == <<"f", "a", "q">>
l_test == <<"t", "e", "s", "t">>
c_k_1 == <<"k", ":", "1">>
c_a_b == <<"a", "-", "b">>

\* Uploaded files and contents of faq.json
FaqJsonHyphen ==
  MkObj(<< <<s_rootMessage, MkObj(<< <<s_en, Str(c_x)>> >>)>>,
           <<s_categories, Arr(<<MkObj(<< <<s_id, Str(c_a_b)>>, <<s_label, Str(c_Foo)>> >>)>>)>>,
           <<s_faqs, MkObj(<<
              <<FaqKey(1), MkObj(<< <<s_categoryId, Str(c_a_b)>>, <<s_label, Str(c_Foo)>>,
                                    <<s_content, MkObj(<< <<s_en, Str(c_x)>>,
                                                          <<s_pt, Str(c_y)>> >>)>> >>)>>,
              <<c_k_1, MkObj(<< <<s_category, Str(c_a)>>, <<s_label, Str(c_Bar)>>,
                                <<s_content, MkObj(<< <<s_en, Str(c_x)>>,
                                                      <<s_pt, Str(c_y)>> >>)>> >>)>> >>)>> >>)
FaqJsonNullEntry == MkObj(<< <<s_faqs, MkObj(<< <<FaqKey(1), Null>> >>)>> >>)
FaqJsonNoFaqs == MkObj(<< <<s_rootMessage, MkObj(<< <<s_en, Str(c_x)>> >>)>> >>)
FaqJsonEmptyFaqs == MkObj(<< <<s_faqs, Obj(<<>>)>> >>)
FaqJsonEmptyList == MkObj(<< <<s_faqs, Arr(<<>>)>> >>)
FaqJsonTextFaqs == MkObj(<< <<s_faqs, Str(c_x)>> >>)

\* The parsed attachments of /faq import
Uploads ==
  { FaqJsonHyphen, FaqJsonNullEntry, FaqJsonNoFaqs, FaqJsonEmptyFaqs,
    FaqJsonEmptyList, FaqJsonTextFaqs, Null }

\* The checks of /faq import without the one for an empty `faqs`
importCheckNoEmpty(data) ==
  IF Nullish(data) THEN "error"
  ELSE IF ~Truthy(Get(data, s_faqs)) \/ TypeOf(Get(data, s_faqs)) # "object" THEN "invalid"
  ELSE "ok"

\* The checks of /faq import on the parsed attachment (lines 653-662):
\* "error" for the TypeError of data.faqs on null
importCheck(data) ==
  IF Nullish(data) THEN "error"
  ELSE IF ~Truthy(Get(data, s_faqs)) \/ TypeOf(Get(data, s_faqs)) # "object" THEN "invalid"
  ELSE IF Len(Keys(Get(data, s_faqs))) = 0 THEN "empty"
  ELSE "ok"

\* A handler: where it awaits, its arguments and its local variables
Task(pc, guilds, k, nonce, msg, changed, result) ==
  [pc |-> pc, guilds |-> guilds, k |-> k, nonce |-> nonce, msg |-> msg,
   changed |-> changed, result |-> result]
IdleTask == Task("idle", <<>>, 0, 0, 0, FALSE, "")

\* The bot's message in a guild's channel: the id of the last one sent,
\* whether it is still there, and the payload it shows
Message(id, exists, payload) == [id |-> id, exists |-> exists, payload |-> payload]
NoMessage == Message(0, FALSE, Null)

\* message.json and the channels as an earlier run of the bot can leave them
InitStores ==
  { <<<<>>, [g \in Guilds |-> NoMessage]>> }
  \cup
  { << << <<g1, Entry(ChannelOf(g1), 1, 2)>> >>,
       [g \in Guilds |->
          IF g = g1
          THEN Message(1, exists, buildCv2Root(normalizeFaqData(FaqJsonOneFaq), 2))
          ELSE NoMessage] >> : exists \in BOOLEAN }
  \cup
  { << << <<g1, Entry(ChannelOf(g1), 1, 2)>>, <<g2, Entry(ChannelOf(g2), 1, 2)>> >>,
       [g \in Guilds |->
          Message(1, g = g1, buildCv2Root(normalizeFaqData(FaqJsonOneFaq), 2))] >> }

\* The process starts: loadFaq() of the module bodies, ClientReady pending;
\* moderators will run /faq setup in the guilds `setups`
InitHandlers(setups) ==
  /\ faqFile \in {FileMissing, FileJson(FaqJsonOneFaq)}
  /\ \E loaded \in {loadFaq(Null, faqFile, FALSE)} : faqData = loaded.faqData
  /\ testFile = FileMissing
  /\ \E st \in InitStores : store = st[1] /\ discord = st[2]
  /\ tasks = [setup |-> [g \in setups |-> IdleTask], import |-> IdleTask,
              startup |-> [IdleTask EXCEPT !.pc = "ready"]]
  /\ userLangCache = Idle
  /\ op = NotRun
  /\ raw = Idle /\ out = Idle
  /\ text = <<>> /\ IMAGES = Idle /\ parts = Idle

InitBot == InitHandlers({g1})

\* The number of handlers that are at an await
InFlight ==
  Cardinality({g \in DOMAIN tasks.setup : tasks.setup[g].pc # "idle"})
    + (IF tasks.import.pc # "idle" THEN 1 ELSE 0)
    + (IF tasks.startup.pc = "loop" THEN 1 ELSE 0)

\* Discord delivers a new interaction while at most one handler is waiting
MayStart == InFlight <= 1

\* A moderator deletes the bot's message
DeleteMessage ==
  \E g \in Guilds :
    /\ discord[g].exists
    /\ discord' = [discord EXCEPT ![g].exists = FALSE]
    /\ UNCHANGED <<faqFile, faqData, testFile, store, tasks, userLangCache,
                   op, raw, out, text, IMAGES, parts>>

\* /faq setup up to `await targetChannel.messages.fetch` (lines 536-550)
Setup(g) ==
  /\ tasks.setup[g].pc = "idle"
  /\ tasks' = [tasks EXCEPT !.setup[g] =
       [IdleTask EXCEPT !.pc = "fetch",
          !.guilds = IF HasGuild(readStore(store), g) THEN readStore(store)
                     ELSE SetGuild(readStore(store), g, NewEntry)]]
  /\ UNCHANGED <<faqFile, faqData, testFile, store, discord, userLangCache,
                 op, raw, out, text, IMAGES, parts>>

SetupStart == \E g \in DOMAIN tasks.setup : MayStart /\ Setup(g)

\* /faq setup from the fetched messages to `await msg.edit(payload)` or
\* `await targetChannel.send(payload)` (lines 551-568); buildCv2Root raising
\* ends the handler in its catch
SetupSend ==
  \E g \in DOMAIN tasks.setup, loaded \in {loadFaq(faqData, faqFile, FALSE)} :
    /\ tasks.setup[g].pc = "fetch"
    /\ nextNonce(GuildEntry(tasks.setup[g].guilds, g)) <= MaxNonce
    /\ discord[g].exists \/ discord[g].id < MaxMessages
    /\ faqData' = loaded.faqData
    /\ \E payload \in {buildCv2Root(loaded.ret, nextNonce(GuildEntry(tasks.setup[g].guilds, g)))} :
         IF payload = Thrown
         THEN /\ tasks' = [tasks EXCEPT !.setup[g] = IdleTask]
              /\ UNCHANGED discord
         ELSE /\ tasks' = [tasks EXCEPT !.setup[g].pc = "send",
                             !.setup[g].nonce = nextNonce(GuildEntry(tasks.setup[g].guilds, g)),
                             !.setup[g].msg = IF discord[g].exists THEN discord[g].id
                                              ELSE discord[g].id + 1]
              /\ discord' = [discord EXCEPT ![g] =
                   Message(IF discord[g].exists THEN discord[g].id ELSE discord[g].id + 1,
                           TRUE, payload)]
    /\ UNCHANGED <<faqFile, testFile, store, userLangCache, op, raw, out, text, IMAGES, parts>>

\* The setup handler has replied: the pointer it wrote stays on record
SetupDone(msg, nonce) == [IdleTask EXCEPT !.msg = msg, !.nonce = nonce, !.result = "success"]

\* /faq setup after the message is edited or sent: the entry is set and
\* the store written (lines 561-565 and 569-573)
SetupStore ==
  \E g \in DOMAIN tasks.setup :
    /\ tasks.setup[g].pc = "send"
    /\ store' = writeStore(SetGuild(tasks.setup[g].guilds, g,
                                    Entry(ChannelOf(g), tasks.setup[g].msg, tasks.setup[g].nonce)))
    /\ tasks' = [tasks EXCEPT !.setup[g] = SetupDone(tasks.setup[g].msg, tasks.setup[g].nonce)]
    /\ UNCHANGED <<faqFile, faqData, testFile, discord, userLangCache,
                   op, raw, out, text, IMAGES, parts>>

\* The import handler has replied: its outcome stays on record
ImportDone(result) == [IdleTask EXCEPT !.result = result]

\* /faq import from the downloaded text to its reply, or for a valid
\* production file to `await import('./faq-loader.mjs')` (lines 644-671)
Import(data, destino) ==
  /\ tasks.import.pc = "idle"
  /\ IF importCheck(data) # "ok"
     THEN /\ tasks' = [tasks EXCEPT !.import = ImportDone("rejected")]
          /\ UNCHANGED <<faqFile, testFile>>
     ELSE IF destino = l_test
     THEN /\ testFile' = FileJson(data)
          /\ tasks' = [tasks EXCEPT !.import = ImportDone("test")]
          /\ UNCHANGED faqFile
     ELSE /\ faqFile' = FileJson(data)
          /\ tasks' = [tasks EXCEPT !.import = [IdleTask EXCEPT !.pc = "reload"]]
          /\ UNCHANGED testFile
  /\ UNCHANGED <<faqData, store, discord, userLangCache, op, raw, out, text, IMAGES, parts>>

ImportStart == \E data \in Uploads : MayStart /\ Import(data, l_faq)

\* /faq import: reloadFaq() and readStore(), then the first await of the
\* loop over the guilds, or for an empty store writeStore and the reply
\* (lines 672-705)
ImportReload ==
  \E loaded \in {loadFaq(faqData, faqFile, TRUE)} :
    /\ tasks.import.pc = "reload"
    /\ faqData' = loaded.faqData
    /\ IF readStore(store) = <<>>
       THEN /\ store' = writeStore(readStore(store))
            /\ tasks' = [tasks EXCEPT !.import = ImportDone("success")]
       ELSE /\ tasks' = [tasks EXCEPT !.import.pc = "loop",
                           !.import.guilds = readStore(store), !.import.k = 1]
            /\ UNCHANGED store
    /\ UNCHANGED <<faqFile, testFile, discord, userLangCache, op, raw, out, text, IMAGES, parts>>

\* /faq import: one guild of the loop (lines 680-698), and after the last
\* one writeStore and the reply (lines 700-705).  buildCv2Root raising is
\* caught inside the loop.
ImportLoop ==
  \E loaded \in {loadFaq(faqData, faqFile, FALSE)} :
    /\ tasks.import.pc = "loop"
    /\ LET t == tasks.import
           g == t.guilds[t.k][1]
           entry == t.guilds[t.k][2]
           found == /\ entry.channelId # 0 /\ entry.messageId # 0
                    /\ discord[g].exists /\ discord[g].id = entry.messageId
       IN /\ found => nextNonce(entry) <= MaxNonce
          /\ faqData' = IF found THEN loaded.faqData ELSE faqData
          /\ \E payload \in {IF found THEN buildCv2Root(loaded.ret, nextNonce(entry))
                             ELSE Thrown} :
               LET guilds2 == IF payload = Thrown THEN t.guilds
                              ELSE SetGuild(t.guilds, g,
                                            [entry EXCEPT !.nonce = nextNonce(entry)])
               IN /\ discord' = IF payload = Thrown THEN discord
                                ELSE [discord EXCEPT ![g].payload = payload]
                  /\ IF t.k = Len(t.guilds)
                     THEN /\ store' = writeStore(guilds2)
                          /\ tasks' = [tasks EXCEPT !.import = ImportDone("success")]
                     ELSE /\ tasks' = [tasks EXCEPT !.import.guilds = guilds2,
                                         !.import.k = t.k + 1]
                          /\ UNCHANGED store
    /\ UNCHANGED <<faqFile, testFile, userLangCache, op, raw, out, text, IMAGES, parts>>

\* ClientReady after registerCommands: readStore() and the first await of
\* the loop over the guilds (lines 485-490)
StartupBegin ==
  /\ tasks.startup.pc = "ready"
  /\ tasks' = [tasks EXCEPT !.startup =
       IF readStore(store) = <<>> THEN [IdleTask EXCEPT !.pc = "done"]
       ELSE [IdleTask EXCEPT !.pc = "loop", !.guilds = readStore(store), !.k = 1]]
  /\ UNCHANGED <<faqFile, faqData, testFile, store, discord, userLangCache,
                 op, raw, out, text, IMAGES, parts>>

\* ClientReady: one guild of the loop (lines 488-515): a missing message
\* is sent again; after the last guild writeStore if anything changed
\* (line 517).  buildCv2Root raising is caught inside the loop.
StartupLoop ==
  \E loaded \in {loadFaq(faqData, faqFile, FALSE)} :
    /\ tasks.startup.pc = "loop"
    /\ LET t == tasks.startup
           g == t.guilds[t.k][1]
           entry == t.guilds[t.k][2]
           missing == /\ entry.channelId # 0
                      /\ ~(/\ entry.messageId # 0
                           /\ discord[g].exists /\ discord[g].id = entry.messageId)
       IN /\ missing => (nextNonce(entry) <= MaxNonce /\ discord[g].id < MaxMessages)
          /\ faqData' = IF missing THEN loaded.faqData ELSE faqData
          /\ \E payload \in {IF missing THEN buildCv2Root(loaded.ret, nextNonce(entry))
                             ELSE Thrown} :
               LET guilds2 == IF payload = Thrown THEN t.guilds
                              ELSE SetGuild(t.guilds, g,
                                     Entry(entry.channelId, discord[g].id + 1,
                                           nextNonce(entry)))
                   changed2 == t.changed \/ payload # Thrown
               IN /\ discord' = IF payload = Thrown THEN discord
                                ELSE [discord EXCEPT ![g] =
                                        Message(discord[g].id + 1, TRUE, payload)]
                  /\ IF t.k = Len(t.guilds)
                     THEN /\ store' = IF changed2 THEN writeStore(guilds2) ELSE store
                          /\ tasks' = [tasks EXCEPT !.startup = [IdleTask EXCEPT !.pc = "done"]]
                     ELSE /\ tasks' = [tasks EXCEPT !.startup.guilds = guilds2,
                                         !.startup.changed = changed2,
                                         !.startup.k = t.k + 1]
                          /\ UNCHANGED store
    /\ UNCHANGED <<faqFile, testFile, userLangCache, op, raw, out, text, IMAGES, parts>>

\* A selection from a menu reads the dataset: faqExists(contentKey) calls
\* loadFaq() (line 775)
SelectMenu ==
  \E loaded \in {loadFaq(faqData, faqFile, FALSE)} :
    /\ faqData' = loaded.faqData
    /\ UNCHANGED <<faqFile, testFile, store, discord, tasks, userLangCache,
                   op, raw, out, text, IMAGES, parts>>

NextBot ==
  \/ DeleteMessage
  \/ SetupStart
  \/ SetupSend
  \/ SetupStore
  \/ ImportStart
  \/ ImportReload
  \/ ImportLoop
  \/ StartupBegin
  \/ StartupLoop
  \/ SelectMenu

SpecBot == InitBot /\ [][NextBot]_vars

---------------------------------------------------------------------------
(* The handlers one at a time: a handler starts when no other is at an    *)
(* await.                                                                  *)

Alone == InFlight = 0

InitSequential == InitHandlers(Guilds)

SetupAlone == \E g \in DOMAIN tasks.setup : Alone /\ Setup(g)

ImportAlone == \E data \in Uploads : Alone /\ Import(data, l_faq)

StartupAlone == Alone /\ StartupBegin

NextSequential ==
  \/ DeleteMessage
  \/ SetupAlone
  \/ SetupSend
  \/ SetupStore
  \/ ImportAlone
  \/ ImportReload
  \/ ImportLoop
  \/ StartupAlone
  \/ StartupLoop
  \/ SelectMenu

SpecSequential == InitSequential /\ [][NextSequential]_vars

---------------------------------------------------------------------------
(* The imports to both destinations, interleaved with the startup          *)
(* restoration and the readers; no moderator runs /faq setup.              *)

InitImport == InitHandlers({})

ImportEither ==
  \E data \in Uploads, destino \in {l_faq, l_test} : MayStart /\ Import(data, destino)

NextImport ==
  \/ DeleteMessage
  \/ ImportEither
  \/ ImportReload
  \/ ImportLoop
  \/ StartupBegin
  \/ StartupLoop
  \/ SelectMenu

SpecImport == InitImport /\ [][NextImport]_vars

---------------------------------------------------------------------------
(* Claims about the handlers                                               *)

\* What a facade read gets from loadFaq() in this state
ReadNow == loadFaq(faqData, faqFile, FALSE).ret

\* C11: once a production /faq import has written faq.json and reported
\* success, every facade read works on the dataset normalised from the
\* imported file, never on the dataset cached before the import
C11_ReadsImportedFile ==
  (tasks.import.pc = "idle" /\ tasks.import.result = "success") =>
    /\ faqFile.t = "json"
    /\ ReadNow = normalizeFaqData(faqFile.v[1])

\* The uploaded JSON has no `faqs` mapping, or an empty one
LacksFaqs(data) ==
  \/ data.t # "object"
  \/ ~In(s_faqs, data)
  \/ Get(data, s_faqs).t \notin {"object", "array"}
  \/ Keys(Get(data, s_faqs)) = <<>>

\* The uploads of the model that lack it
UploadsLackingFaqs == {data \in Uploads : LacksFaqs(data)}

FaqContents == {FaqJsonOneFaq} \cup {data \in Uploads : importCheck(data) = "ok"}

\* C14: wherever a handler can run, also during an import, a reader gets
\* from loadFaq either null or a whole dataset normalised from one content
\* of faq.json, never a mix of two datasets or a partly built one
C14_WholeDataset ==
  /\ faqData = Null \/ \E data \in FaqContents : faqData = normalizeFaqData(data)
  /\ ReadNow = Null \/ \E data \in FaqContents : ReadNow = normalizeFaqData(data)

\* An import has replaced the cached dataset and is updating the guilds
\* while a /faq setup is at an await
C14_Witness ==
  /\ tasks.import.pc = "loop"
  /\ tasks.setup[g1].pc # "idle"
  /\ faqData = normalizeFaqData(FaqJsonHyphen)

\* The store holds the pointer the last completed /faq setup of guild g wrote
HoldsSetupPointer(g) ==
  /\ tasks.setup[g].pc = "idle" /\ tasks.setup[g].result = "success"
  /\ HasGuild(store, g)
  /\ GuildEntry(store, g) = Entry(ChannelOf(g), tasks.setup[g].msg, tasks.setup[g].nonce)

\* C17: the pointer a completed /faq setup wrote to the store is never
\* lost or reverted by a handler that runs interleaved with it: the next
\* write of the store keeps the guild, with a message and a nonce that are
\* not older
C17_SetupPointerKept ==
  [][\A g \in DOMAIN tasks.setup :
       HoldsSetupPointer(g) =>
         /\ HasGuild(store', g)
         /\ GuildEntry(store', g).messageId >= GuildEntry(store, g).messageId
         /\ GuildEntry(store', g).nonce >= GuildEntry(store, g).nonce]_vars

\* C18: every select menu of a root message the bot has posted has a
\* custom id the interaction handler accepts (^select_[a-z0-9_]+:\d+$)
C18_MenusAccepted ==
  \A g \in Guilds :
    discord[g].payload # Null =>
      \A i \in 1..Len(discord[g].payload.v) :
        selectPattern(discord[g].payload.v[i].custom_id)

\* The nonce stored for a guild, 1 while the store has no entry for it
StoredNonce(guilds, g) == IF HasGuild(guilds, g) THEN GuildEntry(guilds, g).nonce ELSE 1

\* Every custom id of the root message of guild g embeds the nonce n
EmbedsNonce(message, n) ==
  /\ message.payload # Null
  /\ \A i \in 1..Len(message.payload.v) :
       endsWith(message.payload.v[i].custom_id, <<":">> \o numberToString(n))

\* When no handler is at an await, the nonce stored for a guild is the one
\* its root message embeds
PostedNonceStored ==
  Alone => \A g \in Guilds :
             discord[g].payload # Null =>
               HasGuild(store, g) /\ EmbedsNonce(discord[g], StoredNonce(store, g))

---------------------------------------------------------------------------
(* Specification of the replies: members select entries from a menu and    *)
(* press the language toggle of the reply they got.                         *)

u1 == <<"u", "1">>
u2 == <<"u", "2">>
Users == {u1, u2}

\* The values a member can select: the keys of the datasets and a stale one
SelectKeys == {FaqKey(1), FaqKey(2), c_k_1, c_a_b}

InitReply ==
  /\ faqFile \in {FileJson(FaqJsonHyphen), FileJson(FaqJsonOneFaq)}
  /\ \E loaded \in {loadFaq(Null, faqFile, FALSE)} : faqData = loaded.faqData
  /\ IMAGES = NoImages
  /\ userLangCache = [u \in Users |-> <<>>]
  /\ op = NotRun
  /\ testFile = FileMissing /\ store = <<>>
  /\ discord = [g \in Guilds |-> NoMessage]
  /\ tasks = [setup |-> [g \in Guilds |-> IdleTask], import |-> IdleTask,
              startup |-> [IdleTask EXCEPT !.pc = "done"]]
  /\ raw = Idle /\ out = Idle /\ text = <<>> /\ parts = Idle

\* A selection from a menu (lines 772-781)
Select ==
  \E u \in Users, key \in SelectKeys :
    /\ op' = Call("select", <<u, key>>,
                  IF faqExists(faqData, key) # Bool(TRUE) THEN Str(l_notFound)
                  ELSE buildCv2Reply(faqData, IMAGES, key,
                                     IF userLangCache[u] = <<>> THEN s_en
                                     ELSE userLangCache[u]))
    /\ UNCHANGED <<userLangCache, faqFile, faqData, IMAGES, testFile, store, discord,
                   tasks, raw, out, text, parts>>

\* The member who got the last reply presses its language toggle
\* (lines 796-802)
LangButton ==
  /\ op # NotRun
  /\ op.result.t = "reply"
  /\ userLangCache' = [userLangCache EXCEPT ![op.args[1]] = pressedLang(op.result.custom_id)]
  /\ op' = Call("lang_btn", <<op.args[1], op.result.custom_id>>,
                buildCv2Reply(faqData, IMAGES, pressedKey(op.result.custom_id),
                              pressedLang(op.result.custom_id)))
  /\ UNCHANGED <<faqFile, faqData, IMAGES, testFile, store, discord, tasks,
                 raw, out, text, parts>>

NextReply == Select \/ LangButton

SpecReply == InitReply /\ [][NextReply]_vars

\* C19: the language toggle round-trips: the handler that receives the
\* custom id of a reply's toggle shows the same FAQ key in the opposite
\* language ('pt' after 'en', otherwise 'en'), for every key, also one
\* containing ':'
C19_ToggleRoundTrip ==
  [][(op # NotRun /\ op.result.t = "reply" /\ op'.name = "lang_btn") =>
       /\ op'.result.t = "reply"
       /\ op'.result.key = op.result.key
       /\ op'.result.lang = (IF op.result.lang = s_en THEN s_pt ELSE s_en)]_vars

---------------------------------------------------------------------------
(* Claims about the sweep of parseContentMarkers                           *)

\* lastIndex after the first k markers of ms (line 198)
CursorAfter(ms, k) == IF k = 0 THEN 0 ELSE ms[k].index + ms[k].length

\* The slice of text the sweep takes before marker k, or after the last
\* marker for k = Len(ms) + 1 (lines 171-174 and 201-204): 0-based from
\* and to, to <= from when nothing is taken
SpanFrom(ms, k) == CursorAfter(ms, k - 1)
SpanTo(s, ms, k) ==
  IF k <= Len(ms)
  THEN (IF ms[k].index > SpanFrom(ms, k) THEN ms[k].index ELSE SpanFrom(ms, k))
  ELSE (IF SpanFrom(ms, k) < Len(s) THEN Len(s) ELSE SpanFrom(ms, k))

\* The contents of the text segments the spans give, in order
RECURSIVE SpanTexts(_, _, _)
SpanTexts(s, ms, k) ==
  IF k > Len(ms) + 1 THEN <<>>
  ELSE (IF trim(slice(s, SpanFrom(ms, k), SpanTo(s, ms, k))) # <<>>
        THEN <<trim(slice(s, SpanFrom(ms, k), SpanTo(s, ms, k)))>> ELSE <<>>)
       \o SpanTexts(s, ms, k + 1)

\* The contents of the text segments of a parse, in order
RECURSIVE TextsOf(_)
TextsOf(ps) ==
  IF ps = <<>> THEN <<>>
  ELSE (IF Head(ps).type = "text" THEN <<Head(ps).content>> ELSE <<>>) \o TextsOf(Tail(ps))

\* C21: in parseContentMarkers no two markers start at the same offset,
\* the sweep cursor never moves backwards, also when a file marker and a
\* link marker overlap, and every character of the text is in at most one
\* slice that becomes a text segment
C21_CursorForward ==
  parts # NotRun =>
    \E ms \in {sortByIndex(markersOf(text))} :
      /\ \A i \in 1..Len(ms) : \A j \in (i + 1)..Len(ms) : ms[i].index # ms[j].index
      /\ \A k \in 1..Len(ms) : CursorAfter(ms, k) >= CursorAfter(ms, k - 1)
      /\ \A c \in 0..(Len(text) - 1) :
           \A k \in 1..(Len(ms) + 1) : \A m \in (k + 1)..(Len(ms) + 1) :
             ~(/\ SpanFrom(ms, k) <= c /\ c < SpanTo(text, ms, k)
               /\ SpanFrom(ms, m) <= c /\ c < SpanTo(text, ms, m))
      /\ parts # Thrown => TextsOf(parts.v) = SpanTexts(text, ms, 1)

\* A parse of a text where a marker starts inside a marker of the other
\* type
C21_Witness ==
  /\ parts # NotRun /\ parts # Thrown
  /\ \E ms \in {sortByIndex(markersOf(text))} :
       \E i \in 1..Len(ms) : \E j \in (i + 1)..Len(ms) :
         /\ ms[i].type # ms[j].type
         /\ ms[j].index < ms[i].index + ms[i].length

---------------------------------------------------------------------------
(* Claims about the language preference                                    *)

\* The language the toggle of a reply offers (line 363)
ToggledLanguage(reply) == IF reply.lang = s_en THEN s_pt ELSE s_en

\* The language a member is served: the preference, 'en' without one
Served(cache, u) == IF cache[u] = <<>> THEN s_en ELSE cache[u]

\* C22: the language preference of a member is 'en' or 'pt'; pressing a
\* toggle sets the preference of the member who pressed it to the language
\* toggled to and leaves every other member's alone; a selection changes no
\* preference and is rendered in the member's preference, 'en' for a
\* member who never pressed a toggle
C22_LanguagePreference ==
  [][/\ \A u \in Users : userLangCache'[u] \in {<<>>, s_en, s_pt}
     /\ op'.name = "lang_btn" =>
          /\ userLangCache'[op'.args[1]] = ToggledLanguage(op.result)
          /\ \A u \in Users \ {op'.args[1]} : userLangCache'[u] = userLangCache[u]
     /\ op'.name = "select" =>
          /\ UNCHANGED userLangCache
          /\ op'.result.t = "reply" =>
                op'.result.lang = Served(userLangCache, op'.args[1])]_vars

====
